---- MODULE Spec2Model ----
(***************************************************************************)
(* A model of codex-arch's incremental analyzer                            *)
(* (codex_arch/change_detection/incremental.py) and of its dependency      *)
(* graph (codex_arch/extractors/python/dependency_graph.py).               *)
(*                                                                         *)
(* Strings the code slices (file paths, module names) are sequences of     *)
(* tokens: a name, "/", "\\", ".", an extension.  "a/__init__.py" is       *)
(* <<"a", "/", "__init__", ".", "py">>, the module name "a.b" is           *)
(* <<"a", ".", "b">>.  A Python dict is a function whose DOMAIN is the     *)
(* dict's key set; an optional value is a sequence of length 0 or 1.       *)
(***************************************************************************)
EXTENDS Integers, Sequences, FiniteSets, TLC

VARIABLES
    cache,          \* CacheManager: cache key -> cached result
    head,           \* GitChangeDetector: the latest commit hash
    sui,            \* the last should_use_incremental call: inputs and result
    run,            \* the last perform_incremental_dependency_analysis call
    nodes,          \* DependencyGraph.nodes: <<node id, node data>> in insertion order
    edges,          \* DependencyGraph.edges: source id -> list of target ids
    reverse_edges,  \* DependencyGraph.reverse_edges: target id -> list of sources
    edge_calls,     \* history of add_edge per (source, target): the data of the first
                    \* call, and whether a later call passed different data
    unresolved_imports, \* DependencyGraph.unresolved_imports: source id -> list of names
    external_deps,  \* DependencyGraph.external_deps: source id -> set of module names
    gop,            \* the last recorded call on the graph: operation, arguments, result
    ext,            \* the last PythonDependencyExtractor.extract call
    sys_path,       \* ImportPathResolver.sys_path: the search roots in order
    _path_cache,    \* ImportPathResolver._path_cache: cache key -> resolved path
    fs_files,       \* the regular files on disk
    first_result,   \* history: arguments of resolve_import -> what the first call returned
    rop,            \* the last ImportPathResolver.resolve_import call
    heap,           \* the dict objects of the interpreter: address -> contents
    entries,        \* the cache store by reference: cache key -> address of the snapshot
    hop,            \* the last incremental analysis observed on the heap
    xt              \* the extract call in progress: its position and its inserts

incVars == <<cache, head, sui, run>>
graphVars == <<nodes, edges, reverse_edges, edge_calls>>
extVars == <<unresolved_imports, external_deps, gop, ext>>
resVars == <<sys_path, _path_cache, fs_files, first_result, rop>>
auxVars == <<heap, entries, hop, xt>>
vars == <<cache, head, sui, run, nodes, edges, reverse_edges, edge_calls,
          unresolved_imports, external_deps, gop, ext,
          sys_path, _path_cache, fs_files, first_result, rop,
          heap, entries, hop, xt>>

----------------------------------------------------------------------------
(* Bounds of the model *)

\* the longest edge list an analyzer run reports for one module
MaxDeps == 2
\* the most files one change set of perform_incremental_dependency_analysis holds
MaxChanged == 2
\* how far beyond the threshold the change sets of should_use_incremental reach
MaxExtra == 2

(* Program constants *)

\* `if len(all_changed_files) > 100:  # Arbitrary threshold`
Threshold == 100

----------------------------------------------------------------------------
(* String helpers (str.endswith, slicing from the right, str.replace) *)

EndsWith(s, suffix) ==
    /\ Len(s) >= Len(suffix)
    /\ SubSeq(s, Len(s) - Len(suffix) + 1, Len(s)) = suffix

DropLast(s, n) == SubSeq(s, 1, Len(s) - n)

Replace(s, old, new) == [i \in 1..Len(s) |-> IF s[i] = old THEN new ELSE s[i]]

\* the suffixes the code tests for
DotPy == <<".", "py">>
DotInit == <<".", "__init__">>

----------------------------------------------------------------------------
(* The universe: files of the repository, modules, revisions *)

A_PY == <<"a", ".", "py">>
A_INIT_PY == <<"a", "/", "__init__", ".", "py">>
B_PY == <<"b", ".", "py">>
INIT_PY == <<"__init__", ".", "py">>
NOTES_TXT == <<"notes", ".", "txt">>

Files == {A_PY, A_INIT_PY, B_PY, NOTES_TXT}

ModA == <<"a">>
ModB == <<"b">>
ModD == <<"d">>

\* commit identifiers, oldest first; PrevRev(r) is the parent commit (HEAD~1)
Revs == {"r0", "r1", "r2"}
PrevRev(r) == IF r = "r2" THEN "r1" ELSE "r0"
NextRev(r) == IF r = "r0" THEN "r1" ELSE "r2"

----------------------------------------------------------------------------
(* IncrementalAnalyzer._file_path_to_module_name *)

_file_path_to_module_name(file_path) ==
    IF ~EndsWith(file_path, DotPy)
    THEN file_path
    ELSE LET module_path == DropLast(file_path, 2)
             module_name == Replace(Replace(module_path, "/", "."), "\\", ".")
         IN  IF EndsWith(module_name, DotInit)
             THEN DropLast(module_name, 2)
             ELSE module_name

\* the modules of the universe's Python files, and the targets of their imports
PyFiles == {f \in Files : EndsWith(f, DotPy)}
Modules == {_file_path_to_module_name(f) : f \in PyFiles}
Targets == {ModB, ModD}

\* an edge list: targets in import order, each once (add_edge never repeats one)
DepLists ==
    {l \in UNION {[1..n -> Targets] : n \in 0..MaxDeps} :
        \A i, j \in 1..Len(l) : l[i] = l[j] => i = j}

\* a dependency map: module -> edge list
DepMaps == UNION {[K -> DepLists] : K \in SUBSET Modules}

----------------------------------------------------------------------------
(* The collaborators of the analyzer: the change detector, the cache store *)
(* and the dependency analyzer, at their interfaces                         *)

\* GitChangeDetector.get_commit_info(): the record of the latest commit
get_commit_info(commit) == [commit |-> commit]

\* CacheManager.generate_cache_key(kind, commit)
generate_cache_key(kind, commit) == <<kind, commit>>

\* CacheManager.get_cache_keys()
get_cache_keys(store) == DOMAIN store

\* CacheManager.get_cached_result_for_commit(kind, commit): <<result>>, or <<>>
get_cached_result_for_commit(store, kind, commit) ==
    IF generate_cache_key(kind, commit) \in DOMAIN store
    THEN <<store[generate_cache_key(kind, commit)]>>
    ELSE <<>>

\* CacheManager.set_cache_entry(key, value, commit)
set_cache_entry(store, key, value) ==
    [k \in DOMAIN store \cup {key} |-> IF k = key THEN value ELSE store[k]]

\* GitChangeDetector.get_changes(): a file has at most one status
ChangeSets ==
    {c \in [added : SUBSET Files, modified : SUBSET Files, deleted : SUBSET Files] :
        /\ c.added \cap c.modified = {}
        /\ c.added \cap c.deleted = {}
        /\ c.modified \cap c.deleted = {}
        /\ Cardinality(c.added \cup c.modified \cup c.deleted) <= MaxChanged}

\* DependencyAnalyzer.analyze_specific_files(files): the edge lists of the modules
\* of the Python files among `files`, or no 'dependencies' entry at all
PartialAnalyses(files) ==
    [{_file_path_to_module_name(f) : f \in files \cap PyFiles} -> DepLists] \cup {<<>>}

\* the aggregate metrics of a snapshot: module count, edge count, stamp
RECURSIVE SumOfLengths(_)
SumOfLengths(dependencies) ==
    IF DOMAIN dependencies = {}
    THEN 0
    ELSE LET m == CHOOSE k \in DOMAIN dependencies : TRUE
         IN  Len(dependencies[m])
               + SumOfLengths([k \in DOMAIN dependencies \ {m} |-> dependencies[k]])

\* DependencyAnalyzer.analyze_dependencies(): a snapshot of the whole tree, its
\* metrics those of its dependency map, stamped with the commit analysed
FullAnalyses(commit) ==
    {[dependencies |-> d,
      metrics |-> [module_count |-> Cardinality(DOMAIN d),
                   total_dependencies |-> SumOfLengths(d),
                   last_updated |-> get_commit_info(commit)]] : d \in DepMaps}

----------------------------------------------------------------------------
(* IncrementalAnalyzer._update_dependency_analysis and its steps *)

\* `json.loads(json.dumps(cached_analysis))`: dicts and lists are built anew
json_clone(analysis) ==
    [dependencies |->
        [m \in DOMAIN analysis.dependencies |->
            [i \in 1..Len(analysis.dependencies[m]) |-> analysis.dependencies[m][i]]],
     metrics |-> analysis.metrics]

\* a deletion that also prunes the deleted modules from the other edge lists
remove_deleted_pruning(dependencies, deleted) ==
    LET gone == {_file_path_to_module_name(file_path) : file_path \in deleted}
    IN  [m \in DOMAIN dependencies \ gone |->
            SelectSeq(dependencies[m], LAMBDA t : t \notin gone)]

\* `for file_path in changes.get('deleted', set()): ... del ...[module_name]`
remove_deleted(dependencies, deleted) ==
    LET gone == {_file_path_to_module_name(file_path) : file_path \in deleted}
    IN  [m \in DOMAIN dependencies \ gone |-> dependencies[m]]

\* a merge that appends the new edges to the module's previous list
merge_partial_union(dependencies, partial) ==
    [m \in DOMAIN dependencies \cup DOMAIN partial |->
        IF m \in DOMAIN partial /\ m \in DOMAIN dependencies
        THEN dependencies[m] \o partial[m]
        ELSE IF m \in DOMAIN partial THEN partial[m] ELSE dependencies[m]]

\* `for module, deps in partial_analysis...: updated_analysis['dependencies'][module] = deps`
merge_partial(dependencies, partial) ==
    [m \in DOMAIN dependencies \cup DOMAIN partial |->
        IF m \in DOMAIN partial THEN partial[m] ELSE dependencies[m]]

\* a recalculation that counts the modules that have edges, not the edges
_recalculate_metrics_per_module(analysis, commit) ==
    LET modules == analysis.dependencies
    IN  [analysis EXCEPT !.metrics =
            [module_count |-> Cardinality(DOMAIN modules),
             total_dependencies |->
                Cardinality({m \in DOMAIN modules : Len(modules[m]) > 0}),
             last_updated |-> get_commit_info(commit)]]

_recalculate_metrics(analysis, commit) ==
    LET modules == analysis.dependencies
    IN  [analysis EXCEPT !.metrics =
            [module_count |-> Cardinality(DOMAIN modules),
             total_dependencies |-> SumOfLengths(modules),
             last_updated |-> get_commit_info(commit)]]

\* the files handed to analyze_specific_files: none when nothing was added or modified
combined_changes(changes) == changes.added \cup changes.modified

\* an update that rebuilds the map from the partial analysis alone
_update_dependency_analysis_from_scratch(cached_analysis, changes, partial, commit) ==
    LET updated_analysis == json_clone(cached_analysis)
        merged == IF combined_changes(changes) # {}
                  THEN merge_partial(<<>>, partial)
                  ELSE <<>>
    IN  _recalculate_metrics([updated_analysis EXCEPT !.dependencies = merged], commit)

\* `partial` is what analyze_specific_files returns for combined_changes(changes)
_update_dependency_analysis(cached_analysis, changes, partial, commit) ==
    LET updated_analysis == json_clone(cached_analysis)
        kept == remove_deleted(updated_analysis.dependencies, changes.deleted)
        merged == IF combined_changes(changes) # {}
                  THEN merge_partial(kept, partial)
                  ELSE kept
    IN  _recalculate_metrics([updated_analysis EXCEPT !.dependencies = merged], commit)

----------------------------------------------------------------------------
(* IncrementalAnalyzer.should_use_incremental *)

\* should_use_incremental only counts the changed files, so the change sets it
\* is given hold numbered files: n files, split over the three statuses
SuiCounts == (0..MaxExtra) \cup ((Threshold - MaxExtra)..(Threshold + MaxExtra))

SuiChangeSets ==
    UNION {UNION {{[added |-> 1..a, modified |-> (a + 1)..(a + m), deleted |-> (a + m + 1)..n] :
                        m \in {0, (n - a) \div 2, n - a}} :
                  a \in {0, n \div 2, n}} :
           n \in SuiCounts}

\* `any(changes.values())`
any_changes(changes) ==
    changes.added # {} \/ changes.modified # {} \/ changes.deleted # {}

\* `set().union(*changes.values())`
all_changed_files(changes) == changes.added \cup changes.modified \cup changes.deleted

\* the threshold test off by one
too_many_changes_from_threshold(changes) ==
    Cardinality(all_changed_files(changes)) >= Threshold

\* `len(all_changed_files) > 100`
too_many_changes(changes) == Cardinality(all_changed_files(changes)) > Threshold

\* a decision that asks the change detector before it looks for cache entries
should_use_incremental_detector_first(force_full, store, detector_fails, changes) ==
    IF force_full
    THEN [result |-> FALSE, consulted |-> FALSE]
    ELSE IF detector_fails
    THEN [result |-> FALSE, consulted |-> TRUE]
    ELSE IF get_cache_keys(store) = {}
    THEN [result |-> FALSE, consulted |-> TRUE]
    ELSE IF ~any_changes(changes)
    THEN [result |-> TRUE, consulted |-> TRUE]
    ELSE IF too_many_changes(changes)
    THEN [result |-> FALSE, consulted |-> TRUE]
    ELSE [result |-> TRUE, consulted |-> TRUE]

\* the value returned, and whether the change detector was queried on the way;
\* detector_fails: get_latest_commit_hash or get_changes raises
should_use_incremental(force_full, store, detector_fails, changes) ==
    IF force_full
    THEN [result |-> FALSE, consulted |-> FALSE]
    ELSE IF get_cache_keys(store) = {}
    THEN [result |-> FALSE, consulted |-> FALSE]
    ELSE IF detector_fails
    THEN [result |-> FALSE, consulted |-> TRUE]
    ELSE IF ~any_changes(changes)
    THEN [result |-> TRUE, consulted |-> TRUE]
    ELSE IF too_many_changes(changes)
    THEN [result |-> FALSE, consulted |-> TRUE]
    ELSE [result |-> TRUE, consulted |-> TRUE]

----------------------------------------------------------------------------
(* IncrementalAnalyzer.perform_incremental_dependency_analysis *)

\* `changes[change_type] = {file for file in changes[change_type] if file.endswith('.py')}`
python_files(changes) ==
    [added |-> {f \in changes.added : EndsWith(f, DotPy)},
     modified |-> {f \in changes.modified : EndsWith(f, DotPy)},
     deleted |-> {f \in changes.deleted : EndsWith(f, DotPy)}]

\* a lookup that prefers the snapshot of from_commit
lookup_cached_prior_first(store, commit_hash, from_commit) ==
    LET cached_analysis == get_cached_result_for_commit(store, "deps_analysis", commit_hash)
        prev_analysis == get_cached_result_for_commit(store, "deps_analysis", from_commit)
    IN  IF Len(prev_analysis) > 0
        THEN [path |-> "prior", cached |-> prev_analysis]
        ELSE IF Len(cached_analysis) > 0
        THEN [path |-> "current", cached |-> cached_analysis]
        ELSE [path |-> "full", cached |-> <<>>]

\* the snapshot the incremental path starts from: the latest commit's, else the
\* one of from_commit, else none (a full analysis follows)
lookup_cached(store, commit_hash, from_commit) ==
    LET cached_analysis == get_cached_result_for_commit(store, "deps_analysis", commit_hash)
        prev_analysis == get_cached_result_for_commit(store, "deps_analysis", from_commit)
    IN  IF Len(cached_analysis) > 0
        THEN [path |-> "current", cached |-> cached_analysis]
        ELSE IF Len(prev_analysis) > 0
        THEN [path |-> "prior", cached |-> prev_analysis]
        ELSE [path |-> "full", cached |-> <<>>]

NoChanges == [added |-> {}, modified |-> {}, deleted |-> {}]

\* no call yet
SuiIdle ==
    [called |-> FALSE, force_full |-> FALSE, had_cache |-> FALSE, detector_fails |-> FALSE,
     n_changed |-> 0, consulted |-> FALSE, result |-> FALSE]

RunIdle ==
    [outcome |-> "none", path |-> "none", from_commit |-> "r0", fail_at |-> "none",
     changes |-> NoChanges, cached |-> <<>>, partial |-> <<>>, extracted |-> {},
     full_ran |-> FALSE, result |-> <<>>, before |-> <<>>]

FailPoints == {"get_changes", "get_latest_commit_hash"}

\* no call is outstanding: the last result was taken by the caller
Idle == ~sui.called /\ run.outcome = "none"

\* an exception of the change detector: nothing catches it in this method
PerformRaises ==
    /\ Idle
    /\ \E from_commit \in {PrevRev(head)}, fail_at \in FailPoints :
          run' = [RunIdle EXCEPT !.outcome = "raised", !.from_commit = from_commit,
                                 !.fail_at = fail_at, !.before = cache]
    /\ sui' = SuiIdle
    /\ UNCHANGED <<resVars, auxVars, cache, head, graphVars, extVars>>

\* no snapshot for the latest commit nor for from_commit:
\* _perform_full_dependency_analysis
PerformFull ==
    /\ Idle
    /\ \E from_commit \in {PrevRev(head)}, python_files_only \in BOOLEAN, reported \in ChangeSets :
          LET changes == IF python_files_only THEN python_files(reported) ELSE reported
              commit_hash == head
              found == lookup_cached(cache, commit_hash, from_commit)
          IN  /\ found.path = "full"
              /\ \E full_analysis \in FullAnalyses(head) :
                    /\ cache' = set_cache_entry(cache,
                                    generate_cache_key("deps_analysis", head), full_analysis)
                    /\ run' = [RunIdle EXCEPT !.outcome = "returned", !.path = "full",
                                              !.from_commit = from_commit, !.changes = changes,
                                              !.full_ran = TRUE, !.result = <<full_analysis>>,
                                              !.before = cache]
    /\ sui' = SuiIdle
    /\ UNCHANGED <<resVars, auxVars, head, graphVars, extVars>>

\* a snapshot was found: update it with the changes and store the result
PerformUpdate ==
    /\ Idle
    /\ \E from_commit \in {PrevRev(head)}, python_files_only \in BOOLEAN, reported \in ChangeSets :
          LET changes == IF python_files_only THEN python_files(reported) ELSE reported
              commit_hash == head
              found == lookup_cached(cache, commit_hash, from_commit)
              files == combined_changes(changes)
          IN  /\ found.path # "full"
              /\ \E partial \in (IF files # {} THEN PartialAnalyses(files) ELSE {<<>>}) :
                    LET updated_analysis ==
                            _update_dependency_analysis(found.cached[1], changes, partial, head)
                        cache_key == generate_cache_key("deps_analysis", commit_hash)
                    IN  /\ cache' = set_cache_entry(cache, cache_key, updated_analysis)
                        /\ run' = [RunIdle EXCEPT !.outcome = "returned", !.path = found.path,
                                                  !.from_commit = from_commit,
                                                  !.changes = changes, !.cached = found.cached,
                                                  !.partial = partial, !.extracted = files,
                                                  !.result = <<updated_analysis>>,
                                                  !.before = cache]
    /\ sui' = SuiIdle
    /\ UNCHANGED <<resVars, auxVars, head, graphVars, extVars>>

\* one call of should_use_incremental
ShouldUseIncremental ==
    /\ Idle
    /\ \E force_full \in BOOLEAN, detector_fails \in BOOLEAN, changes \in SuiChangeSets :
          LET r == should_use_incremental(force_full, cache, detector_fails, changes)
          IN  sui' = [called |-> TRUE, force_full |-> force_full,
                      had_cache |-> get_cache_keys(cache) # {},
                      detector_fails |-> detector_fails,
                      n_changed |-> Cardinality(all_changed_files(changes)),
                      consulted |-> r.consulted, result |-> r.result]
    /\ run' = RunIdle
    /\ UNCHANGED <<resVars, auxVars, cache, head, graphVars, extVars>>

\* a new commit becomes the latest one
Commit ==
    /\ Idle
    /\ head # "r2"
    /\ head' = NextRev(head)
    /\ UNCHANGED <<resVars, auxVars, cache, sui, run, graphVars, extVars>>

\* the caller takes the result of the last call
Return ==
    /\ ~Idle
    /\ sui' = SuiIdle
    /\ run' = RunIdle
    /\ UNCHANGED <<resVars, auxVars, cache, head, graphVars, extVars>>

\* no call on the graph is recorded
GopIdle == [op |-> "none", args |-> <<>>, before |-> <<>>, result |-> <<>>]

\* no extraction has run
ExtIdle == [outcome |-> "none", exception |-> "none", project |-> <<>>, graph |-> <<>>,
            errors |-> <<>>, processed |-> <<>>]

GraphInit ==
    /\ nodes = <<>>
    /\ edges = <<>>
    /\ reverse_edges = <<>>
    /\ edge_calls = <<>>
    /\ unresolved_imports = <<>>
    /\ external_deps = <<>>

\* no call of resolve_import is recorded
RopIdle ==
    [op |-> "none", args |-> <<>>, io |-> "ok", raised |-> FALSE, result |-> <<>>,
     outcome |-> "none", probes |-> <<>>, io_error |-> FALSE, repeat |-> FALSE]

\* the analyzer, no call recorded
AnalyzerInit ==
    /\ cache = <<>>
    /\ head = "r1"
    /\ sui = SuiIdle
    /\ run = RunIdle
    /\ gop = GopIdle
    /\ ext = ExtIdle

\* no resolver is in use
NoResolver ==
    /\ sys_path = <<>>
    /\ _path_cache = <<>>
    /\ fs_files = {}
    /\ first_result = <<>>
    /\ rop = RopIdle

\* no call observed on the heap
HopIdle ==
    [op |-> "none", path |-> "none", arg |-> 0, result |-> 0, key |-> <<>>,
     changed |-> FALSE, heap_before |-> <<>>, entries_before |-> <<>>]

\* no extract call in progress
XtIdle ==
    [pc |-> "idle", project |-> <<>>, i |-> 0, at |-> <<>>, st |-> <<>>, log |-> <<>>,
     outcome |-> "none"]

\* no object allocated, no extract call in progress
NoAux ==
    /\ heap = <<>>
    /\ entries = <<>>
    /\ hop = HopIdle
    /\ xt = XtIdle

\* the analyzer's state without the graph
IncInit ==
    /\ AnalyzerInit
    /\ NoResolver
    /\ NoAux

Init ==
    /\ IncInit
    /\ GraphInit

Next ==
    \/ ShouldUseIncremental
    \/ PerformRaises
    \/ PerformFull
    \/ PerformUpdate
    \/ Commit
    \/ Return

Spec == Init /\ [][Next]_vars

----------------------------------------------------------------------------
(* _update_dependency_analysis on its own: every snapshot an analysis run can *)
(* have stored, every change set, every partial analysis                      *)

Snapshots == UNION {FullAnalyses(r) : r \in Revs}

UpdateDependencyAnalysis ==
    /\ Idle
    /\ \E cached_analysis \in Snapshots, changes \in ChangeSets :
          LET files == combined_changes(changes)
          IN  \E partial \in (IF files # {} THEN PartialAnalyses(files) ELSE {<<>>}) :
                 run' = [RunIdle EXCEPT
                            !.outcome = "returned", !.path = "direct",
                            !.changes = changes, !.cached = <<cached_analysis>>,
                            !.partial = partial, !.extracted = files,
                            !.result = <<_update_dependency_analysis(
                                            cached_analysis, changes, partial, head)>>]
    /\ UNCHANGED <<resVars, auxVars, cache, head, sui, graphVars, extVars>>

MergeNext ==
    \/ UpdateDependencyAnalysis
    \/ Commit
    \/ Return

MergeSpec == Init /\ [][MergeNext]_vars

----------------------------------------------------------------------------
(* should_use_incremental on its own, over a cache that full analyses fill *)

DecisionNext ==
    \/ ShouldUseIncremental
    \/ PerformFull
    \/ Commit
    \/ Return

DecisionSpec == Init /\ [][DecisionNext]_vars

----------------------------------------------------------------------------
(* Claims about the incremental analyzer *)

\* the last call went through _update_dependency_analysis and returned
Updated == run.outcome = "returned" /\ run.path \in {"current", "prior", "direct"}

CachedDeps == run.cached[1].dependencies
ResultDeps == run.result[1].dependencies
DeletedModules == {_file_path_to_module_name(f) : f \in run.changes.deleted}
\* the modules the partial analysis reported (none when nothing was analysed)
PartialModules == IF run.extracted # {} THEN DOMAIN run.partial ELSE {}

\* C1: the merge replaces and never unions: a module of the partial analysis
\* gets exactly the partial analysis' edge list, and a module that is neither in
\* the partial analysis nor deleted keeps its cached edge list.
C1_MergeReplaces ==
    Updated =>
        /\ \A m \in PartialModules :
              m \in DOMAIN ResultDeps /\ ResultDeps[m] = run.partial[m]
        /\ \A m \in DOMAIN CachedDeps \ (PartialModules \cup DeletedModules) :
              m \in DOMAIN ResultDeps /\ ResultDeps[m] = CachedDeps[m]

\* cached {a: [b], b: [d]}, a.py modified and re-extracted as {a: [d]}:
\* the result is {a: [d], b: [d]}
C1_Witness ==
    /\ Updated
    /\ run.changes = [added |-> {}, modified |-> {A_PY}, deleted |-> {}]
    /\ DOMAIN CachedDeps = {ModA, ModB}
    /\ CachedDeps[ModA] = <<ModB>>
    /\ CachedDeps[ModB] = <<ModD>>
    /\ DOMAIN run.partial = {ModA}
    /\ run.partial[ModA] = <<ModD>>
    /\ DOMAIN ResultDeps = {ModA, ModB}
    /\ ResultDeps[ModA] = <<ModD>>
    /\ ResultDeps[ModB] = <<ModD>>

\* C2 as stated: after the update no deleted file's module is a key of the
\* dependency map, and the edge lists of the other modules are as they were.
C2_DeletedModulesAbsent ==
    Updated =>
        /\ \A m \in DeletedModules : m \notin DOMAIN ResultDeps
        /\ \A m \in DOMAIN CachedDeps \ (PartialModules \cup DeletedModules) :
              m \in DOMAIN ResultDeps /\ ResultDeps[m] = CachedDeps[m]

\* C2, amended: a deleted file's module is a key of the merged map only when the
\* partial analysis of the added and modified files reported that module again
\* (its list is then the re-extracted one); the edge lists of the modules that
\* are neither deleted nor re-extracted are unchanged, references to deleted
\* modules included.
C2_DeletedUnlessReextracted ==
    Updated =>
        /\ \A m \in DeletedModules :
              m \in DOMAIN ResultDeps =>
                  m \in PartialModules /\ ResultDeps[m] = run.partial[m]
        /\ \A m \in DOMAIN CachedDeps \ (PartialModules \cup DeletedModules) :
              /\ m \in DOMAIN ResultDeps
              /\ ResultDeps[m] = CachedDeps[m]

\* cached {a: [b], b: []} and b.py deleted: no key b, and a still lists b
C2_Witness ==
    /\ Updated
    /\ run.changes = [added |-> {}, modified |-> {}, deleted |-> {B_PY}]
    /\ DOMAIN CachedDeps = {ModA, ModB}
    /\ CachedDeps[ModA] = <<ModB>>
    /\ CachedDeps[ModB] = <<>>
    /\ DOMAIN ResultDeps = {ModA}
    /\ ResultDeps[ModA] = <<ModB>>

\* C3: with force_full false and a change detector that answers, more than 100
\* distinct changed files select Full whatever the cache holds, and a non-empty
\* change set of at most 100 files selects Incremental when the cache has an
\* entry: the switch is exactly at "more than 100".
C3_Threshold ==
    (sui.called /\ ~sui.force_full /\ ~sui.detector_fails) =>
        /\ sui.n_changed > Threshold => ~sui.result
        /\ (sui.had_cache /\ sui.n_changed > 0 /\ sui.n_changed <= Threshold) => sui.result

\* 101 files with a cache entry present: Full
C3_Witness ==
    /\ sui.called /\ ~sui.force_full /\ ~sui.detector_fails
    /\ sui.had_cache
    /\ sui.n_changed = Threshold + 1
    /\ ~sui.result

\* C4 as stated: a failure of the change detector never leaves a call of
\* should_use_incremental or of perform_incremental_dependency_analysis by an
\* exception: the call ends in Full mode.
C4_DetectorFailureFallsBackToFull ==
    /\ (sui.called /\ sui.consulted /\ sui.detector_fails) => ~sui.result
    /\ run.outcome # "raised"

\* C5: force_full, or a cache store without keys, selects Full, and the change
\* detector is not asked.
C5_ForcedOrNoCacheIsFull ==
    (sui.called /\ (sui.force_full \/ ~sui.had_cache)) =>
        ~sui.result /\ ~sui.consulted

\* no cache entry, not forced, and a detector that would have reported no change
C5_Witness ==
    /\ sui.called /\ ~sui.force_full /\ ~sui.had_cache
    /\ ~sui.detector_fails /\ sui.n_changed = 0
    /\ ~sui.result /\ ~sui.consulted

\* the last call of perform_incremental_dependency_analysis updated a cached snapshot
UpdatedFromCache == run.outcome = "returned" /\ run.path \in {"current", "prior"}

\* the entry stored under (deps_analysis, latest commit)
CurrentKey == generate_cache_key("deps_analysis", head)

\* the metrics _recalculate_metrics derives from a dependency map at the latest commit
MetricsOf(dependencies) ==
    [module_count |-> Cardinality(DOMAIN dependencies),
     total_dependencies |->
        Cardinality(UNION {{<<m, i>> : i \in 1..Len(dependencies[m])} :
                                m \in DOMAIN dependencies}),
     last_updated |-> get_commit_info(head)]

\* C6 as stated: with a cached snapshot and no changed file, should_use_incremental
\* selects Incremental, and perform_incremental_dependency_analysis returns and
\* stores a snapshot identical to the cached one, metrics included, without
\* extracting anything.
C6_EmptyDiffVerbatim ==
    /\ (sui.called /\ ~sui.force_full /\ sui.had_cache /\ ~sui.detector_fails
            /\ sui.n_changed = 0) => sui.result
    /\ (UpdatedFromCache /\ run.changes = NoChanges) =>
          /\ run.result = run.cached
          /\ run.extracted = {} /\ ~run.full_ran
          /\ CurrentKey \in DOMAIN cache /\ cache[CurrentKey] = run.result[1]

\* C6, amended: the dependency map is reused as it is and nothing is extracted,
\* but the metrics are recomputed: the counts from the unchanged map, the
\* last_updated stamp from the latest commit.
C6_EmptyDiffReusesDependencies ==
    /\ (sui.called /\ ~sui.force_full /\ sui.had_cache /\ ~sui.detector_fails
            /\ sui.n_changed = 0) => sui.result
    /\ (UpdatedFromCache /\ run.changes = NoChanges) =>
          /\ ResultDeps = CachedDeps
          /\ run.result[1].metrics = MetricsOf(CachedDeps)
          /\ run.extracted = {} /\ ~run.full_ran
          /\ CurrentKey \in DOMAIN cache /\ cache[CurrentKey] = run.result[1]

\* the snapshot of the parent commit, updated with an empty change set: the same
\* map, another stamp
C6_Witness ==
    /\ UpdatedFromCache /\ run.path = "prior" /\ run.changes = NoChanges
    /\ DOMAIN CachedDeps = {ModA, ModB}
    /\ ResultDeps = CachedDeps
    /\ run.result # run.cached
    /\ run.result[1].metrics.last_updated # run.cached[1].metrics.last_updated

\* C7: the snapshot of the latest commit is used when the cache has one, else the
\* snapshot of the prior commit (from_commit), else a full analysis runs; whatever
\* the path, the snapshot returned is the one stored under the latest commit's key.
C7_LookupOrder ==
    run.outcome = "returned" =>
        LET current_key == generate_cache_key("deps_analysis", head)
            prior_key == generate_cache_key("deps_analysis", run.from_commit)
            has_current == current_key \in DOMAIN run.before
            has_prior == prior_key \in DOMAIN run.before
        IN  /\ run.path \in {"current", "prior", "full"}
            /\ run.path = "current" <=> has_current
            /\ run.path = "prior" <=> (~has_current /\ has_prior)
            /\ run.path = "full" <=> (~has_current /\ ~has_prior)
            /\ run.path = "current" => run.cached = <<run.before[current_key]>>
            /\ run.path = "prior" => run.cached = <<run.before[prior_key]>>
            /\ run.path = "full" <=> run.full_ran
            /\ current_key \in DOMAIN cache
            /\ cache[current_key] = run.result[1]

\* both snapshots are cached and differ: the latest commit's is the one updated
C7_Witness ==
    /\ run.outcome = "returned" /\ run.path = "current"
    /\ generate_cache_key("deps_analysis", run.from_commit) \in DOMAIN run.before
    /\ CurrentKey \in DOMAIN run.before
    /\ run.before[generate_cache_key("deps_analysis", run.from_commit)].dependencies
          # run.before[CurrentKey].dependencies
    /\ cache[CurrentKey] = run.result[1]

\* C8: after an update the metrics agree with the dependency map: module_count is
\* the number of its keys and total_dependencies the number of its edges, also
\* when an edge points to a module that was deleted.
C8_MetricsConsistent ==
    Updated =>
        /\ run.result[1].metrics.module_count = Cardinality(DOMAIN ResultDeps)
        /\ run.result[1].metrics.total_dependencies = MetricsOf(ResultDeps).total_dependencies

\* b.py deleted while a still lists b: one module, one edge, the edge dangling
C8_Witness ==
    /\ Updated
    /\ run.changes.deleted = {B_PY}
    /\ DOMAIN ResultDeps = {ModA}
    /\ ResultDeps[ModA] = <<ModB>>
    /\ run.cached[1].metrics.module_count = 2
    /\ run.result[1].metrics.module_count = 1
    /\ run.result[1].metrics.total_dependencies = 1

----------------------------------------------------------------------------
(* DependencyGraph (codex_arch/extractors/python/dependency_graph.py)       *)
(* nodes is the dict in insertion order, a sequence of <<id, data>> pairs;  *)
(* edges and reverse_edges are the defaultdicts, functions from the keys    *)
(* they hold to lists of node ids                                           *)

\* the graph is grown to at most this many edges
MaxEdges == 2

NodeIds == {"A", "B", "C"}

\* the `data` arguments of add_edge: None, the empty dict, two dicts
DataArgs == {"None", "{}", "m1", "m2"}

\* the `data` arguments of add_node: None, the empty dict, a dict
NodeDataArgs == {"None", "{}", "m1"}

\* `if not data: data = {}`
data_or_empty(data) == IF data \in {"None", "{}"} THEN "{}" ELSE data

\* the keys of the nodes dict
node_ids(ns) == {ns[i][1] : i \in 1..Len(ns)}

\* dict.get(key, []) as get_dependencies and get_dependents read the two maps
get_list(d, key) == IF key \in DOMAIN d THEN d[key] ELSE <<>>

\* how often x occurs in a list
Occurrences(x, list) == Cardinality({i \in 1..Len(list) : list[i] = x})

\* the number of edges the graph holds
EdgeCount(es) == SumOfLengths(es)

\* add_node that overwrites the data of a node it finds
add_node_last_write_wins(ns, node_id, data) ==
    IF node_id \notin node_ids(ns)
    THEN Append(ns, <<node_id, data_or_empty(data)>>)
    ELSE [i \in 1..Len(ns) |->
             IF ns[i][1] = node_id THEN <<node_id, data_or_empty(data)>> ELSE ns[i]]

\* DependencyGraph.add_node: the first write of an id wins
add_node(ns, node_id, data) ==
    IF node_id \notin node_ids(ns)
    THEN Append(ns, <<node_id, data_or_empty(data)>>)
    ELSE ns

\* add_edge that takes the target for a node without looking
add_edge_source_only(g, source, target, data) ==
    LET ns1 == IF source \notin node_ids(g.nodes)
               THEN add_node(g.nodes, source, "None") ELSE g.nodes
        es1 == [k \in DOMAIN g.edges \cup {source} |-> get_list(g.edges, k)]
    IN  IF Occurrences(target, es1[source]) = 0
        THEN [nodes |-> ns1,
              edges |-> [es1 EXCEPT ![source] = Append(@, target)],
              reverse_edges |->
                  [k \in DOMAIN g.reverse_edges \cup {target} |->
                      IF k = target
                      THEN Append(get_list(g.reverse_edges, target), source)
                      ELSE g.reverse_edges[k]]]
        ELSE [nodes |-> ns1, edges |-> es1, reverse_edges |-> g.reverse_edges]

\* add_edge that forgets the reverse index
add_edge_forward_only(g, source, target, data) ==
    LET ns1 == IF source \notin node_ids(g.nodes)
               THEN add_node(g.nodes, source, "None") ELSE g.nodes
        ns2 == IF target \notin node_ids(ns1) THEN add_node(ns1, target, "None") ELSE ns1
        es1 == [k \in DOMAIN g.edges \cup {source} |-> get_list(g.edges, k)]
    IN  IF Occurrences(target, es1[source]) = 0
        THEN [nodes |-> ns2,
              edges |-> [es1 EXCEPT ![source] = Append(@, target)],
              reverse_edges |-> g.reverse_edges]
        ELSE [nodes |-> ns2, edges |-> es1, reverse_edges |-> g.reverse_edges]

\* DependencyGraph.add_edge: both endpoints become nodes (with empty data when
\* they are new), reading self.edges[source] creates its key, and the edge is
\* appended to both maps unless edges[source] already lists the target.  The
\* `data` argument is normalised and then used nowhere.
add_edge(g, source, target, data) ==
    LET ns1 == IF source \notin node_ids(g.nodes)
               THEN add_node(g.nodes, source, "None") ELSE g.nodes
        ns2 == IF target \notin node_ids(ns1) THEN add_node(ns1, target, "None") ELSE ns1
        es1 == [k \in DOMAIN g.edges \cup {source} |-> get_list(g.edges, k)]
    IN  IF Occurrences(target, es1[source]) = 0
        THEN [nodes |-> ns2,
              edges |-> [es1 EXCEPT ![source] = Append(@, target)],
              reverse_edges |->
                  [k \in DOMAIN g.reverse_edges \cup {target} |->
                      IF k = target
                      THEN Append(get_list(g.reverse_edges, target), source)
                      ELSE g.reverse_edges[k]]]
        ELSE [nodes |-> ns2, edges |-> es1, reverse_edges |-> g.reverse_edges]

\* the metadata the graph holds for the edge source -> target: an edge is the
\* target id in edges[source] and the source id in reverse_edges[target], and no
\* field of the graph takes the `data` of add_edge, so there is none
edge_data(g, source, target) == <<>>

\* the graph object
Graph == [nodes |-> nodes, edges |-> edges, reverse_edges |-> reverse_edges]

\* one call of add_node
AddNode ==
    /\ \E node_id \in NodeIds, data \in NodeDataArgs :
          nodes' = add_node(nodes, node_id, data)
    /\ UNCHANGED <<resVars, auxVars, edges, reverse_edges, edge_calls, incVars, extVars>>

\* one call of add_edge
AddEdge ==
    /\ \E source \in NodeIds, target \in NodeIds, data \in DataArgs :
          LET g == add_edge(Graph, source, target, data)
              e == <<source, target>>
          IN  /\ EdgeCount(g.edges) <= MaxEdges
              /\ nodes' = g.nodes
              /\ edges' = g.edges
              /\ reverse_edges' = g.reverse_edges
              /\ edge_calls' =
                    IF e \in DOMAIN edge_calls
                    THEN [edge_calls EXCEPT ![e].differing =
                             @ \/ edge_calls[e].first # data_or_empty(data)]
                    ELSE [k \in DOMAIN edge_calls \cup {e} |->
                             IF k = e
                             THEN [first |-> data_or_empty(data), differing |-> FALSE]
                             ELSE edge_calls[k]]
    /\ UNCHANGED <<resVars, auxVars, incVars, extVars>>

GraphNext ==
    \/ AddNode
    \/ AddEdge

GraphSpec == Init /\ [][GraphNext]_vars

----------------------------------------------------------------------------
(* Claims about the dependency graph *)

\* C9: after any sequence of add_node and add_edge calls, for all nodes s and t,
\* t is listed in edges[s] exactly when s is listed in reverse_edges[t], and
\* each is listed once.
C9_ReverseEdgesConsistent ==
    \A s \in NodeIds, t \in NodeIds :
        /\ Occurrences(t, get_list(edges, s)) = Occurrences(s, get_list(reverse_edges, t))
        /\ Occurrences(t, get_list(edges, s)) <= 1

\* A -> C was added twice with different data, then B -> C
C9_Witness ==
    /\ <<"A", "C">> \in DOMAIN edge_calls /\ edge_calls[<<"A", "C">>].differing
    /\ get_list(edges, "A") = <<"C">>
    /\ get_list(edges, "B") = <<"C">>
    /\ get_list(reverse_edges, "C") = <<"A", "B">>

\* C10: add_edge(s, t, m1) followed by add_edge(s, t, m2) with m2 # m1 leaves
\* exactly one edge s -> t, one entry in edges[s] and one in reverse_edges[t],
\* and the metadata retained for that edge is m1.
C10_FirstMetadataRetained ==
    \A e \in DOMAIN edge_calls :
        edge_calls[e].differing =>
            /\ Occurrences(e[2], get_list(edges, e[1])) = 1
            /\ Occurrences(e[1], get_list(reverse_edges, e[2])) = 1
            /\ edge_data(Graph, e[1], e[2]) = <<edge_calls[e].first>>

----------------------------------------------------------------------------
(* add_node and add_edge, each call recorded with the graph it found *)

\* the recorded calls grow the graph to at most this many edges
MaxCallEdges == 1

\* every field of the graph object
FullGraph ==
    [nodes |-> nodes, edges |-> edges, reverse_edges |-> reverse_edges,
     unresolved_imports |-> unresolved_imports, external_deps |-> external_deps]

\* self.nodes[node_id]
node_data(ns, node_id) == ns[CHOOSE i \in 1..Len(ns) : ns[i][1] = node_id][2]

\* one call of add_node, recorded
AddNodeCall ==
    /\ gop.op = "none"
    /\ \E node_id \in NodeIds, data \in NodeDataArgs :
          /\ nodes' = add_node(nodes, node_id, data)
          /\ gop' = [op |-> "add_node", args |-> [node_id |-> node_id, data |-> data],
                     before |-> FullGraph, result |-> <<>>]
    /\ UNCHANGED <<resVars, auxVars, edges, reverse_edges, edge_calls, unresolved_imports, external_deps,
                   ext, incVars>>

\* one call of add_edge, recorded
AddEdgeCall ==
    /\ gop.op = "none"
    /\ \E source \in NodeIds, target \in NodeIds, data \in DataArgs :
          LET g == add_edge(Graph, source, target, data)
              e == <<source, target>>
          IN  /\ EdgeCount(g.edges) <= MaxCallEdges
              /\ nodes' = g.nodes
              /\ edges' = g.edges
              /\ reverse_edges' = g.reverse_edges
              /\ edge_calls' =
                    IF e \in DOMAIN edge_calls
                    THEN [edge_calls EXCEPT ![e].differing =
                             @ \/ edge_calls[e].first # data_or_empty(data)]
                    ELSE [k \in DOMAIN edge_calls \cup {e} |->
                             IF k = e
                             THEN [first |-> data_or_empty(data), differing |-> FALSE]
                             ELSE edge_calls[k]]
              /\ gop' = [op |-> "add_edge",
                         args |-> [source |-> source, target |-> target, data |-> data],
                         before |-> FullGraph, result |-> <<>>]
    /\ UNCHANGED <<resVars, auxVars, unresolved_imports, external_deps, ext, incVars>>

\* the caller goes on after a recorded call
GraphReturn ==
    /\ gop.op # "none"
    /\ gop' = GopIdle
    /\ UNCHANGED <<resVars, auxVars, graphVars, unresolved_imports, external_deps, ext, incVars>>

CallNext ==
    \/ AddNodeCall
    \/ AddEdgeCall
    \/ GraphReturn

CallSpec == Init /\ [][CallNext]_vars

\* C11: add_node on an id the graph has leaves the node's data and every other
\* part of the graph as they were; on a new id it appends the node with the
\* data given, or with the empty dict when None or nothing usable is given.
C11_AddNodeFirstWriteWins ==
    gop.op = "add_node" =>
        IF gop.args.node_id \in node_ids(gop.before.nodes)
        THEN FullGraph = gop.before
        ELSE /\ nodes = Append(gop.before.nodes,
                          <<gop.args.node_id,
                            IF gop.args.data \in {"m1", "m2"} THEN gop.args.data ELSE "{}">>)
             /\ [FullGraph EXCEPT !.nodes = gop.before.nodes] = gop.before

\* A was added with no data, then add_node("A", m1) was called: A keeps {}
C11_Witness ==
    /\ gop.op = "add_node" /\ gop.args.node_id = "A" /\ gop.args.data = "m1"
    /\ "A" \in node_ids(gop.before.nodes)
    /\ node_data(gop.before.nodes, "A") = "{}"
    /\ node_data(nodes, "A") = "{}"
    /\ Len(nodes) = 2

\* C12: every key of edges and every target in an edge list is a key of nodes;
\* an endpoint add_edge had to create has empty data, and every node the graph
\* had before the call keeps its place and its data.
C12_EndpointsAreNodes ==
    /\ \A k \in DOMAIN edges :
          /\ k \in node_ids(nodes)
          /\ \A i \in 1..Len(edges[k]) : edges[k][i] \in node_ids(nodes)
    /\ gop.op = "add_edge" =>
          /\ \A i \in 1..Len(gop.before.nodes) : nodes[i] = gop.before.nodes[i]
          /\ \A i \in (Len(gop.before.nodes) + 1)..Len(nodes) :
                /\ nodes[i][1] \in {gop.args.source, gop.args.target}
                /\ nodes[i][2] = "{}"
          /\ {gop.args.source, gop.args.target} \subseteq node_ids(nodes)

\* A had data m1; add_edge("A", "B", m2) created B with empty data and left A's
C12_Witness ==
    /\ gop.op = "add_edge"
    /\ gop.args = [source |-> "A", target |-> "B", data |-> "m2"]
    /\ gop.before.nodes = <<<<"A", "m1">>>>
    /\ nodes = <<<<"A", "m1">>, <<"B", "{}">>>>
    /\ get_list(edges, "A") = <<"B">>

----------------------------------------------------------------------------
(* The queries of DependencyGraph: find_cycles, get_transitive_dependencies   *)
(* The graph a query runs on is any graph add_node and add_edge calls build:  *)
(* the nodes added first in some order, then a list of edges                  *)

\* the graphs the queries run on are built from at most this many add_edge calls
MaxQueryEdges == 3

\* the orders in which add_node can have been called on distinct ids
NodeOrders ==
    {o \in UNION {[1..n -> NodeIds] : n \in 0..Cardinality(NodeIds)} :
        \A i, j \in DOMAIN o : i # j => o[i] # o[j]}

\* the lists of (source, target) pairs add_edge can have been called with
EdgeLists == UNION {[1..n -> NodeIds \X NodeIds] : n \in 0..MaxQueryEdges}

EmptyGraph == [nodes |-> <<>>, edges |-> <<>>, reverse_edges |-> <<>>]

\* add_node(id) for each id of a list, then add_edge(source, target) for each pair
RECURSIVE add_nodes(_, _)
add_nodes(g, order) ==
    IF order = <<>>
    THEN g
    ELSE add_nodes([g EXCEPT !.nodes = add_node(g.nodes, Head(order), "None")], Tail(order))

RECURSIVE add_edges(_, _)
add_edges(g, edge_list) ==
    IF edge_list = <<>>
    THEN g
    ELSE add_edges(add_edge(g, Head(edge_list)[1], Head(edge_list)[2], "None"),
                   Tail(edge_list))

\* the graph built by the calls of an order of nodes and a list of edges
BuiltGraph(o, e) == add_edges(add_nodes(EmptyGraph, o), e)

\* the edges of an edge map as a set of pairs
EdgeSet(es) == UNION {{<<s, es[s][i]>> : i \in 1..Len(es[s])} : s \in DOMAIN es}

\* get_all_nodes(): the node ids in insertion order
get_all_nodes(ns) == [i \in 1..Len(ns) |-> ns[i][1]]

\* path.index(node)
IndexOf(x, list) == CHOOSE i \in 1..Len(list) : list[i] = x /\ \A j \in 1..(i - 1) : list[j] # x

\* the dfs of find_cycles on node, and its loop over the node's dependencies;
\* st holds cycles, visited, path (path_set is the set of path's elements) and
\* the nodes whose dependency list was walked
RECURSIVE fc_dfs(_, _, _)
RECURSIVE fc_for_each_dep(_, _, _)

\* a dfs that reports the whole path instead of its slice from the node found
fc_dfs_whole_path(es, node, st) ==
    IF node \in st.visited
    THEN st
    ELSE IF Occurrences(node, st.path) > 0
    THEN [st EXCEPT !.cycles = Append(@, st.path \o <<node>>)]
    ELSE LET entered == [st EXCEPT !.path = Append(@, node),
                                   !.expanded = Append(@, node)]
             walked == fc_for_each_dep(es, get_list(es, node), entered)
         IN  [walked EXCEPT !.path = SubSeq(@, 1, Len(@) - 1),
                            !.visited = @ \cup {node}]

\* a dfs that marks a node visited when it enters it
fc_dfs_visited_on_entry(es, node, st) ==
    IF node \in st.visited
    THEN st
    ELSE IF Occurrences(node, st.path) > 0
    THEN [st EXCEPT !.cycles =
             Append(@, SubSeq(st.path, IndexOf(node, st.path), Len(st.path)) \o <<node>>)]
    ELSE LET entered == [st EXCEPT !.path = Append(@, node),
                                   !.expanded = Append(@, node),
                                   !.visited = @ \cup {node}]
             walked == fc_for_each_dep(es, get_list(es, node), entered)
         IN  [walked EXCEPT !.path = SubSeq(@, 1, Len(@) - 1)]

fc_dfs(es, node, st) ==
    IF node \in st.visited
    THEN st
    ELSE IF Occurrences(node, st.path) > 0
    THEN [st EXCEPT !.cycles =
             Append(@, SubSeq(st.path, IndexOf(node, st.path), Len(st.path)) \o <<node>>)]
    ELSE LET entered == [st EXCEPT !.path = Append(@, node),
                                   !.expanded = Append(@, node)]
             walked == fc_for_each_dep(es, get_list(es, node), entered)
         IN  [walked EXCEPT !.path = SubSeq(@, 1, Len(@) - 1),
                            !.visited = @ \cup {node}]

fc_for_each_dep(es, deps, st) ==
    IF deps = <<>>
    THEN st
    ELSE fc_for_each_dep(es, Tail(deps), fc_dfs(es, Head(deps), st))

\* `for node in self.get_all_nodes(): if node not in visited: dfs(node)`
RECURSIVE fc_for_each_node(_, _, _)
fc_for_each_node(es, ids, st) ==
    IF ids = <<>>
    THEN st
    ELSE fc_for_each_node(es, Tail(ids),
             IF Head(ids) \notin st.visited THEN fc_dfs(es, Head(ids), st) ELSE st)

FcStart == [cycles |-> <<>>, visited |-> {}, path |-> <<>>, expanded |-> <<>>]

\* find_cycles that searches from the first node only
find_cycles_from_first_node(g) ==
    IF g.nodes = <<>>
    THEN FcStart
    ELSE fc_dfs(g.edges, g.nodes[1][1], FcStart)

\* DependencyGraph.find_cycles: the final state of the search; .cycles is returned
find_cycles(g) == fc_for_each_node(g.edges, get_all_nodes(g.nodes), FcStart)

\* the dfs of get_transitive_dependencies and its loop over the dependencies
RECURSIVE td_dfs(_, _, _)
RECURSIVE td_for_each_dep(_, _, _)
td_dfs(es, node, st) ==
    IF node \in st.visited
    THEN st
    ELSE td_for_each_dep(es, get_list(es, node), [st EXCEPT !.visited = @ \cup {node}])

td_for_each_dep(es, deps, st) ==
    IF deps = <<>>
    THEN st
    ELSE td_for_each_dep(es, Tail(deps),
             td_dfs(es, Head(deps), [st EXCEPT !.result = @ \cup {Head(deps)}]))

\* get_transitive_dependencies that leaves out a dependency it has expanded before
get_transitive_dependencies_unvisited_only(g, node_id) ==
    td_dfs(g.edges, node_id, [result |-> {}, visited |-> {}]).visited \ {node_id}

\* DependencyGraph.get_transitive_dependencies
get_transitive_dependencies(g, node_id) ==
    td_dfs(g.edges, node_id, [result |-> {}, visited |-> {}]).result

\* a graph the queries run on
QueryInit ==
    /\ IncInit
    /\ \E o \in NodeOrders, el \in EdgeLists :
          LET g == BuiltGraph(o, el) IN
          /\ nodes = g.nodes
          /\ edges = g.edges
          /\ reverse_edges = g.reverse_edges
          /\ edge_calls = [e \in EdgeSet(g.edges) |-> [first |-> "{}", differing |-> FALSE]]
    /\ unresolved_imports = <<>>
    /\ external_deps = <<>>

\* one call of find_cycles
FindCycles ==
    /\ gop.op = "none"
    /\ gop' = [op |-> "find_cycles", args |-> <<>>, before |-> <<>>,
               result |-> find_cycles(Graph)]
    /\ UNCHANGED <<resVars, auxVars, graphVars, unresolved_imports, external_deps, ext, incVars>>

\* one call of get_transitive_dependencies
GetTransitiveDependencies ==
    /\ gop.op = "none"
    /\ \E node_id \in NodeIds :
          gop' = [op |-> "get_transitive_dependencies", args |-> [node_id |-> node_id],
                  before |-> <<>>, result |-> get_transitive_dependencies(Graph, node_id)]
    /\ UNCHANGED <<resVars, auxVars, graphVars, unresolved_imports, external_deps, ext, incVars>>

QueryNext ==
    \/ FindCycles
    \/ GetTransitiveDependencies
    \/ GraphReturn

QuerySpec == QueryInit /\ [][QueryNext]_vars

\* the nodes reachable from the nodes of S by zero or more edges of E
RECURSIVE Closure(_, _)
Closure(E, S) ==
    LET next == S \cup {e[2] : e \in {d \in E : d[1] \in S}}
    IN  IF next = S THEN S ELSE Closure(E, next)

\* the nodes reachable from n by a path of one or more edges of E
ReachableFrom(E, n) == Closure(E, {e[2] : e \in {d \in E : d[1] = n}})

\* the edges are one simple directed cycle: every node on an edge has one
\* successor and one predecessor, and one walk round passes them all
IsSimpleCycle(E) ==
    LET V == {e[1] : e \in E} \cup {e[2] : e \in E}
    IN  /\ E # {}
        /\ \A v \in V : /\ Cardinality({e \in E : e[1] = v}) = 1
                        /\ Cardinality({e \in E : e[2] = v}) = 1
        /\ \A v \in V : ReachableFrom(E, v) = V

\* C13: on a graph whose edges are one simple directed cycle, A -> B -> C -> A
\* among them, find_cycles reports exactly one cycle and it passes every node of
\* the cycle.
C13_SimpleCycleReported ==
    (gop.op = "find_cycles" /\ IsSimpleCycle(EdgeSet(edges))) =>
        /\ Len(gop.result.cycles) = 1
        /\ {gop.result.cycles[1][i] : i \in 1..Len(gop.result.cycles[1])}
              = {e[1] : e \in EdgeSet(edges)}

\* the edges are exactly A -> B, B -> C, C -> A and the search starts at C
C13_Witness ==
    /\ gop.op = "find_cycles"
    /\ EdgeSet(edges) = {<<"A", "B">>, <<"B", "C">>, <<"C", "A">>}
    /\ get_all_nodes(nodes) = <<"C", "A", "B">>
    /\ gop.result.cycles = <<<<"C", "A", "B", "C">>>>

\* C14: get_transitive_dependencies(n) is exactly the set of nodes reachable from
\* n by one or more edges, in cyclic graphs too; n is in it exactly when n lies
\* on a directed cycle or has a self-edge.
C14_TransitiveIsReachable ==
    gop.op = "get_transitive_dependencies" =>
        /\ gop.result = ReachableFrom(EdgeSet(edges), gop.args.node_id)
        /\ gop.args.node_id \in gop.result
              <=> \E e \in EdgeSet(edges) :
                     /\ e[1] = gop.args.node_id
                     /\ gop.args.node_id \in Closure(EdgeSet(edges), {e[2]})

\* A -> B -> A with B -> C: from A the result holds A itself, B and C
C14_Witness ==
    /\ gop.op = "get_transitive_dependencies" /\ gop.args.node_id = "A"
    /\ EdgeSet(edges) = {<<"A", "B">>, <<"B", "A">>, <<"B", "C">>}
    /\ gop.result = {"A", "B", "C"}

\* C27: every cycle find_cycles reports starts and ends at the same node,
\* repeats no other node, and steps along edges of the graph; a self-edge on a
\* node n is reported as <<n, n>>.
C27_ReportedCyclesAreReal ==
    gop.op = "find_cycles" =>
        LET cycles == gop.result.cycles
            E == EdgeSet(edges)
        IN  /\ \A k \in 1..Len(cycles) :
                  LET c == cycles[k]
                  IN  /\ Len(c) >= 2
                      /\ c[1] = c[Len(c)]
                      /\ \A i, j \in 1..(Len(c) - 1) : c[i] = c[j] => i = j
                      /\ \A i \in 1..(Len(c) - 1) : <<c[i], c[i + 1]>> \in E
            /\ \A n \in NodeIds :
                  <<n, n>> \in E => \E k \in 1..Len(cycles) : cycles[k] = <<n, n>>

\* B -> A, A -> A, A -> B, searched from B: the cycles B, A, B and A, A
C27_Witness ==
    /\ gop.op = "find_cycles"
    /\ get_all_nodes(nodes) = <<"B", "A">>
    /\ edges = ("B" :> <<"A">>) @@ ("A" :> <<"A", "B">>)
    /\ gop.result.cycles = <<<<"A", "A">>, <<"B", "A", "B">>>>

----------------------------------------------------------------------------
(* analyze_dependencies: the metrics and the two rankings of a graph *)

\* the rankings are cut after this many nodes
TopN == 10

\* the graphs that are ranked hold at most this many nodes without edges beside
\* NodeIds, and are built from at most this many add_edge calls
MaxExtraNodes == 8
MaxRankEdges == 2

ExtraIds == <<"n01", "n02", "n03", "n04", "n05", "n06", "n07", "n08", "n09", "n10",
              "n11", "n12">>

\* none, or enough to pass TopN nodes
ExtraCounts == {0} \cup {k \in (MaxExtraNodes - 1)..MaxExtraNodes : k <= Len(ExtraIds)}

RankEdgeLists == UNION {[1..n -> NodeIds \X NodeIds] : n \in 0..MaxRankEdges}

\* the extra nodes are added before or after the first nodes of NodeIds
RankedGraph(o, k, extras_first, e) ==
    BuiltGraph(IF extras_first
               THEN SubSeq(ExtraIds, 1, k) \o o
               ELSE o \o SubSeq(ExtraIds, 1, k), e)

\* sorted(..., reverse=True) as an ascending stable sort that is then reversed
RECURSIVE sorted_ascending_then_reversed(_, _)
sorted_ascending_then_reversed(list, key) ==
    IF list = <<>>
    THEN <<>>
    ELSE LET rest == sorted_ascending_then_reversed(SubSeq(list, 1, Len(list) - 1), key)
             x == list[Len(list)]
             p == Cardinality({i \in 1..Len(rest) : key[rest[i]] > key[x]})
         IN  SubSeq(rest, 1, p) \o <<x>> \o SubSeq(rest, p + 1, Len(rest))

\* sorted(list, key=lambda n: key[n], reverse=True): descending by key, elements
\* with equal keys in the order they have in list
RECURSIVE sorted_descending(_, _)
sorted_descending(list, key) ==
    IF list = <<>>
    THEN <<>>
    ELSE LET rest == sorted_descending(SubSeq(list, 1, Len(list) - 1), key)
             x == list[Len(list)]
             p == Cardinality({i \in 1..Len(rest) : key[rest[i]] >= key[x]})
         IN  SubSeq(rest, 1, p) \o <<x>> \o SubSeq(rest, p + 1, Len(rest))

\* list[:n]
FirstN(list, n) == SubSeq(list, 1, IF Len(list) < n THEN Len(list) ELSE n)

RECURSIVE SumOver(_, _)
SumOver(list, key) == IF list = <<>> THEN 0 ELSE key[Head(list)] + SumOver(Tail(list), key)

\* analyze_dependencies(graph); the average is kept as <<numerator, denominator>>
analyze_dependencies(g) ==
    LET ids == get_all_nodes(g.nodes)
        cycles == find_cycles(g).cycles
        dependent_counts == [n \in node_ids(g.nodes) |-> Len(get_list(g.reverse_edges, n))]
        dependency_counts == [n \in node_ids(g.nodes) |-> Len(get_list(g.edges, n))]
        most_depended_on == sorted_descending(ids, dependent_counts)
        most_dependencies == sorted_descending(ids, dependency_counts)
        total_dependencies == SumOver(ids, dependency_counts)
    IN  [total_modules |-> Len(ids),
         total_dependencies |-> total_dependencies,
         average_dependencies |->
             IF Len(ids) > 0 THEN <<total_dependencies, Len(ids)>> ELSE <<0, 1>>,
         most_depended_on |->
             [i \in 1..Len(FirstN(most_depended_on, TopN)) |->
                 <<most_depended_on[i], dependent_counts[most_depended_on[i]]>>],
         most_dependencies |->
             [i \in 1..Len(FirstN(most_dependencies, TopN)) |->
                 <<most_dependencies[i], dependency_counts[most_dependencies[i]]>>],
         cycles |-> cycles,
         has_cycles |-> Len(cycles) > 0]

\* C28: find_cycles walks the dependency list of a node at most once, and it
\* reports at least one cycle exactly when the graph has a directed cycle, so
\* has_cycles of analyze_dependencies is exact.
C28_CyclicityExact ==
    gop.op = "find_cycles" =>
        LET expanded == gop.result.expanded
            E == EdgeSet(edges)
        IN  /\ \A i, j \in 1..Len(expanded) : expanded[i] = expanded[j] => i = j
            /\ (gop.result.cycles # <<>>) <=> (\E n \in NodeIds : n \in ReachableFrom(E, n))
            /\ analyze_dependencies(Graph).has_cycles
                   <=> (\E n \in NodeIds : n \in ReachableFrom(E, n))

\* A -> B -> A and C -> A: the search from C meets A, which is finished
C28_Witness ==
    /\ gop.op = "find_cycles"
    /\ get_all_nodes(nodes) = <<"A", "B", "C">>
    /\ EdgeSet(edges) = {<<"A", "B">>, <<"B", "A">>, <<"C", "A">>}
    /\ gop.result.expanded = <<"A", "B", "C">>
    /\ gop.result.cycles = <<<<"A", "B", "A">>>>

\* a graph that is ranked
RankInit ==
    /\ IncInit
    /\ \E o \in NodeOrders, k \in ExtraCounts, extras_first \in BOOLEAN,
          el \in RankEdgeLists :
          LET g == RankedGraph(o, k, extras_first, el) IN
          /\ nodes = g.nodes
          /\ edges = g.edges
          /\ reverse_edges = g.reverse_edges
          /\ edge_calls = [e \in EdgeSet(g.edges) |-> [first |-> "{}", differing |-> FALSE]]
    /\ unresolved_imports = <<>>
    /\ external_deps = <<>>

\* one call of analyze_dependencies
AnalyzeDependencies ==
    /\ gop.op = "none"
    /\ gop' = [op |-> "analyze_dependencies", args |-> <<>>, before |-> <<>>,
               result |-> analyze_dependencies(Graph)]
    /\ UNCHANGED <<resVars, auxVars, graphVars, unresolved_imports, external_deps, ext, incVars>>

RankNext ==
    \/ AnalyzeDependencies
    \/ GraphReturn

RankSpec == RankInit /\ [][RankNext]_vars

\* a ranking of the graph's nodes by count: at most TopN entries, none left out
\* while there is room, every node once and with its count, the counts never
\* rising, equal counts in insertion order, and no node left out that would
\* have come before the last entry
IsRanking(ranking, count) ==
    LET ids == get_all_nodes(nodes)
        pos(n) == IndexOf(n, ids)
        ranked == {ranking[i][1] : i \in 1..Len(ranking)}
    IN  /\ Len(ranking) = IF Len(ids) < 10 THEN Len(ids) ELSE 10
        /\ \A i \in 1..Len(ranking) :
              /\ ranking[i][1] \in node_ids(nodes)
              /\ ranking[i][2] = count[ranking[i][1]]
        /\ \A i, j \in 1..Len(ranking) :
              i < j => /\ ranking[i][1] # ranking[j][1]
                       /\ ranking[i][2] >= ranking[j][2]
                       /\ ranking[i][2] = ranking[j][2]
                             => pos(ranking[i][1]) < pos(ranking[j][1])
        /\ \A n \in node_ids(nodes) \ ranked :
              \A i \in 1..Len(ranking) :
                 \/ count[n] < ranking[i][2]
                 \/ count[n] = ranking[i][2] /\ pos(ranking[i][1]) < pos(n)

\* C15: most_depended_on ranks by inbound edges and most_dependencies by
\* outbound edges; each lists at most 10 nodes, counts non-increasing and true,
\* nodes with equal counts in node insertion order.
C15_Rankings ==
    gop.op = "analyze_dependencies" =>
        /\ IsRanking(gop.result.most_depended_on,
                     [n \in node_ids(nodes) |->
                         Cardinality({e \in EdgeSet(edges) : e[2] = n})])
        /\ IsRanking(gop.result.most_dependencies,
                     [n \in node_ids(nodes) |->
                         Cardinality({e \in EdgeSet(edges) : e[1] = n})])

\* eleven nodes, C added last and imported by A and B: C comes first, A and B
\* tie on outbound edges and stay in insertion order, the last node is cut
C15_Witness ==
    /\ gop.op = "analyze_dependencies"
    /\ Len(nodes) = 11
    /\ get_all_nodes(nodes)[1] = "B" /\ get_all_nodes(nodes)[2] = "A"
    /\ get_all_nodes(nodes)[11] = "C"
    /\ EdgeSet(edges) = {<<"A", "C">>, <<"B", "C">>}
    /\ Len(gop.result.most_depended_on) = 10
    /\ gop.result.most_depended_on[1] = <<"C", 2>>
    /\ gop.result.most_dependencies[1] = <<"B", 1>>
    /\ gop.result.most_dependencies[2] = <<"A", 1>>
    /\ \A i \in 1..10 : gop.result.most_dependencies[i][1] # "C"

----------------------------------------------------------------------------
(* Serialization: add_unresolved_import, add_external_dependency, to_dict *)

\* the graphs that are serialized are built from at most this many add_edge calls
\* and hold at most this many unresolved imports and this many external modules
MaxSerialEdges == 1
MaxNotes == 2

\* import names as the code slices them: "os", "pkg.mod", ".c", "."
OS == <<"os">>
PKG_MOD == <<"pkg", ".", "mod">>
DOT_C == <<".", "c">>
DOT == <<".">>

\* the sources and names of the imports that are noted on the graph
NoteSources == {"A", "B"}
NoteNames == {OS, PKG_MOD}

SerialEdgeLists == UNION {[1..n -> NodeIds \X NodeIds] : n \in 0..MaxSerialEdges}

\* DependencyGraph.add_unresolved_import: self.unresolved_imports[source].append(name)
add_unresolved_import(unresolved, source, import_name) ==
    [k \in DOMAIN unresolved \cup {source} |->
        IF k = source THEN Append(get_list(unresolved, source), import_name)
        ELSE unresolved[k]]

\* DependencyGraph.add_external_dependency: self.external_deps[source].add(name)
add_external_dependency(external, source, module_name) ==
    [k \in DOMAIN external \cup {source} |->
        IF k = source
        THEN (IF source \in DOMAIN external THEN external[source] ELSE {}) \cup {module_name}
        ELSE external[k]]

\* list(v) of a set v: its elements once each, in an order the set decides
Listings(S) ==
    {l \in [1..Cardinality(S) -> S] : \A i, j \in 1..Cardinality(S) : i # j => l[i] # l[j]}

\* the elements of a list
Range(list) == {list[i] : i \in 1..Len(list)}

\* a list without its repeated elements
RECURSIVE Unique(_)
Unique(list) ==
    IF list = <<>>
    THEN <<>>
    ELSE LET rest == Unique(SubSeq(list, 1, Len(list) - 1))
         IN  IF list[Len(list)] \in Range(rest) THEN rest ELSE Append(rest, list[Len(list)])

\* to_dict that writes the unresolved imports like the external ones, once each
to_dict_unique_imports(g, listed) ==
    [nodes |-> g.nodes,
     edges |-> g.edges,
     unresolved_imports |->
         [k \in DOMAIN g.unresolved_imports |-> Unique(g.unresolved_imports[k])],
     external_dependencies |-> [k \in DOMAIN g.external_deps |-> listed[k]]]

\* DependencyGraph.to_dict; listed[k] is list(v) of the set external_deps[k]
to_dict(g, listed) ==
    [nodes |-> g.nodes,
     edges |-> g.edges,
     unresolved_imports |-> g.unresolved_imports,
     external_dependencies |-> [k \in DOMAIN g.external_deps |-> listed[k]]]

\* the reader of the serialized form: the four maps taken back, the lists of
\* external modules as sets again
from_dict(d) ==
    [nodes |-> d.nodes,
     edges |-> d.edges,
     unresolved_imports |-> d.unresolved_imports,
     external_deps |->
         [k \in DOMAIN d.external_dependencies |-> Range(d.external_dependencies[k])]]

\* the number of names a map of lists or of sets holds
RECURSIVE NoteCount(_, _)
NoteCount(notes, as_list) ==
    IF DOMAIN notes = {}
    THEN 0
    ELSE LET k == CHOOSE x \in DOMAIN notes : TRUE
         IN  (IF as_list THEN Len(notes[k]) ELSE Cardinality(notes[k]))
                + NoteCount([x \in DOMAIN notes \ {k} |-> notes[x]], as_list)

\* a graph that is serialized
SerialInit ==
    /\ IncInit
    /\ \E o \in NodeOrders, el \in SerialEdgeLists :
          LET g == BuiltGraph(o, el) IN
          /\ nodes = g.nodes
          /\ edges = g.edges
          /\ reverse_edges = g.reverse_edges
          /\ edge_calls = [e \in EdgeSet(g.edges) |-> [first |-> "{}", differing |-> FALSE]]
    /\ unresolved_imports = <<>>
    /\ external_deps = <<>>

\* one call of add_unresolved_import
AddUnresolvedImport ==
    /\ gop.op = "none"
    /\ NoteCount(unresolved_imports, TRUE) < MaxNotes
    /\ \E source \in NoteSources, import_name \in NoteNames :
          unresolved_imports' = add_unresolved_import(unresolved_imports, source, import_name)
    /\ UNCHANGED <<resVars, auxVars, graphVars, external_deps, gop, ext, incVars>>

\* one call of add_external_dependency
AddExternalDependency ==
    /\ gop.op = "none"
    /\ \E source \in NoteSources, module_name \in NoteNames :
          /\ external_deps' = add_external_dependency(external_deps, source, module_name)
          /\ NoteCount(external_deps', FALSE) <= MaxNotes
    /\ UNCHANGED <<resVars, auxVars, graphVars, unresolved_imports, gop, ext, incVars>>

\* one call of to_dict
ToDict ==
    /\ gop.op = "none"
    /\ \E listed \in [DOMAIN external_deps -> UNION {Listings(external_deps[k]) :
                                                        k \in DOMAIN external_deps}] :
          /\ \A k \in DOMAIN external_deps : listed[k] \in Listings(external_deps[k])
          /\ gop' = [op |-> "to_dict", args |-> <<>>, before |-> <<>>,
                     result |-> to_dict(FullGraph, listed)]
    /\ UNCHANGED <<resVars, auxVars, graphVars, unresolved_imports, external_deps, ext, incVars>>

SerialNext ==
    \/ AddUnresolvedImport
    \/ AddExternalDependency
    \/ ToDict
    \/ GraphReturn

SerialSpec == SerialInit /\ [][SerialNext]_vars

----------------------------------------------------------------------------
(* PythonDependencyExtractor (codex_arch/extractors/python/extractor.py)      *)
(* A project is the list find_python_files returns, sorted, each file with    *)
(* what parse_python_file does on it: raise, return None, or return a list of *)
(* import descriptors.  The extractor's graph is kept in the record of the    *)
(* call, node ids being file paths.                                           *)

\* a file holds at most this many imports
MaxImports == 2

C_PY == <<"c", ".", "py">>

\* the import descriptors of the parser: import b, from . import c, import os
ImportB == [type |-> "import", module |-> <<"b">>, level |-> 0]
FromDotImportC == [type |-> "from", module |-> <<>>, level |-> 1]
ImportOs == [type |-> "import", module |-> OS, level |-> 0]
Descriptors == {ImportB, FromDotImportC, ImportOs}

\* what parse_python_file does on a file
ParseOutcomes ==
    {[outcome |-> "raises", imports |-> <<>>], [outcome |-> "none", imports |-> <<>>]}
        \cup {[outcome |-> "imports", imports |-> l] :
                 l \in UNION {[1..n -> Descriptors] : n \in 0..MaxImports}}

\* the projects: a.py, b.py and c.py, or the first files of them
Projects ==
    UNION {{<<>>},
           {<<[path |-> A_PY, parse |-> pa]>> : pa \in ParseOutcomes},
           {<<[path |-> A_PY, parse |-> pa], [path |-> B_PY, parse |-> pb]>> :
                pa \in ParseOutcomes, pb \in ParseOutcomes},
           {<<[path |-> A_PY, parse |-> pa], [path |-> B_PY, parse |-> pb],
              [path |-> C_PY, parse |-> pc]>> :
                pa \in ParseOutcomes, pb \in ParseOutcomes,
                pc \in {[outcome |-> "raises", imports |-> <<>>],
                        [outcome |-> "imports", imports |-> <<>>]}}}

\* a.py holds `import b`, b.py holds `from . import c`, c.py is empty
ScenarioProject ==
    <<[path |-> A_PY, parse |-> [outcome |-> "imports", imports |-> <<ImportB>>]],
      [path |-> B_PY, parse |-> [outcome |-> "imports", imports |-> <<FromDotImportC>>]],
      [path |-> C_PY, parse |-> [outcome |-> "imports", imports |-> <<>>]]>>

\* the files of a project, which are the files on disk under the root
project_files(project) == {project[i].path : i \in 1..Len(project)}

\* the names resolve_import declares for its arguments
resolve_import_params == {"import_name", "source_file", "level"}

\* the keywords process_file passes to resolve_import
process_file_keywords == {"from_file"}

\* a call binds its keyword arguments when each names a parameter; Python raises
\* TypeError otherwise
call_binds(params, keywords) == keywords \subseteq params

\* the methods DependencyGraph defines
DependencyGraphMethods ==
    {"add_node", "add_edge", "add_unresolved_import", "add_external_dependency",
     "get_dependencies", "get_dependents", "get_external_dependencies", "get_all_nodes",
     "find_cycles", "get_transitive_dependencies", "to_dict", "to_json"}

\* DependencyExporter.add_error: one more error record
add_error(errors, file_path, error_type) ==
    Append(errors, [file_path |-> file_path, error_type |-> error_type])

\* the graph of a new extractor
NewGraph ==
    [nodes |-> <<>>, edges |-> <<>>, reverse_edges |-> <<>>,
     unresolved_imports |-> <<>>, external_deps |-> <<>>]

\* add_node and add_edge on the extractor's graph
graph_add_node(g, node_id, data) == [g EXCEPT !.nodes = add_node(g.nodes, node_id, data)]

graph_add_edge(g, source, target, data) ==
    LET h == add_edge([nodes |-> g.nodes, edges |-> g.edges,
                       reverse_edges |-> g.reverse_edges], source, target, data)
    IN  [g EXCEPT !.nodes = h.nodes, !.edges = h.edges, !.reverse_edges = h.reverse_edges]

\* _find_module_path for a module under the project root: module.py, then
\* module/__init__.py; <<path>> when the file is on disk, <<>> for None
find_module_path(disk, module) ==
    LET module_path == Replace(module, ".", "/")
    IN  IF module_path \o DotPy \in disk THEN <<module_path \o DotPy>>
        ELSE IF module_path \o <<"/", "__init__">> \o DotPy \in disk
        THEN <<module_path \o <<"/", "__init__">> \o DotPy>>
        ELSE <<>>

\* lines 118-127 on a resolved path, a string: `for resolved_path in
\* resolved_paths` walks the pieces of the string, and each piece that names
\* something on disk becomes the target of an edge
RECURSIVE add_edges_for_pieces(_, _, _, _)
add_edges_for_pieces(g, disk, node_id, pieces) ==
    IF pieces = <<>>
    THEN g
    ELSE add_edges_for_pieces(
             IF <<Head(pieces)>> \in disk
             THEN graph_add_edge(g, node_id, <<Head(pieces)>>, "import")
             ELSE g,
             disk, node_id, Tail(pieces))

\* the body of the loop over the imports of a file (lines 111-137)
process_import(st, disk, file_path, imp) ==
    IF ~call_binds(resolve_import_params, process_file_keywords)
    THEN [st EXCEPT !.errors = add_error(@, file_path, "resolution_error")]
    ELSE LET resolved_paths == find_module_path(disk, imp.module)
         IN  IF resolved_paths # <<>>
             THEN [st EXCEPT !.graph =
                      add_edges_for_pieces(@, disk, file_path, resolved_paths[1])]
             ELSE st

RECURSIVE process_imports(_, _, _, _)
process_imports(st, disk, file_path, imports) ==
    IF imports = <<>>
    THEN st
    ELSE process_imports(process_import(st, disk, file_path, Head(imports)),
                         disk, file_path, Tail(imports))

\* PythonDependencyExtractor.process_file
process_file(st, disk, file) ==
    LET called == [st EXCEPT !.processed = Append(@, file.path)]
    IN  IF file.parse.outcome = "raises"
        THEN [called EXCEPT !.errors = add_error(@, file.path, "process_error")]
        ELSE IF file.parse.outcome = "none"
        THEN called
        ELSE process_imports(
                 [called EXCEPT !.graph = graph_add_node(@, file.path, "node_data")],
                 disk, file.path, file.parse.imports)

\* the loop of extract over the files (lines 168-177)
RECURSIVE process_files(_, _, _)
process_files(st, disk, files) ==
    IF files = <<>>
    THEN st
    ELSE process_files(process_file(st, disk, Head(files)), disk, Tail(files))

\* PythonDependencyExtractor.extract: the loop, then the log line that calls
\* self.dependency_graph.edge_count(), then the return
extract(project) ==
    LET st == process_files([graph |-> NewGraph, errors |-> <<>>, processed |-> <<>>],
                            project_files(project), project)
    IN  IF "edge_count" \in DependencyGraphMethods
        THEN [outcome |-> "returned", exception |-> "none", project |-> project,
              graph |-> st.graph, errors |-> st.errors, processed |-> st.processed]
        ELSE [outcome |-> "raised", exception |-> "AttributeError", project |-> project,
              graph |-> st.graph, errors |-> st.errors, processed |-> st.processed]

\* one call of extract on a new extractor
Extract ==
    /\ ext.outcome = "none"
    /\ \E project \in Projects : ext' = extract(project)
    /\ UNCHANGED <<resVars, auxVars, graphVars, unresolved_imports, external_deps, gop, incVars>>

\* the caller has the outcome
ExtractReturn ==
    /\ ext.outcome # "none"
    /\ ext' = ExtIdle
    /\ UNCHANGED <<resVars, auxVars, graphVars, unresolved_imports, external_deps, gop, incVars>>

ExtractNext ==
    \/ Extract
    \/ ExtractReturn

ExtractSpec == Init /\ [][ExtractNext]_vars

\* C17: on the project a.py (import b), b.py (from . import c), c.py (empty),
\* extract returns a graph with the nodes a.py, b.py, c.py, the edges
\* a.py -> b.py and b.py -> c.py, no cycle and no unresolved import.
C17_ScenarioGraph ==
    (ext.outcome # "none" /\ ext.project = ScenarioProject) =>
        /\ ext.outcome = "returned"
        /\ node_ids(ext.graph.nodes) = {A_PY, B_PY, C_PY}
        /\ EdgeSet(ext.graph.edges) = {<<A_PY, B_PY>>, <<B_PY, C_PY>>}
        /\ find_cycles(ext.graph).cycles = <<>>
        /\ ext.graph.unresolved_imports = <<>>

\* C18: whatever files fail, extract records an error against each failing
\* file, calls process_file on every file in enumeration order, and returns the
\* graph instead of raising.
C18_BadFileNeverAborts ==
    ext.outcome # "none" =>
        /\ ext.outcome = "returned"
        /\ ext.processed = [i \in 1..Len(ext.project) |-> ext.project[i].path]
        /\ \A i \in 1..Len(ext.project) :
              ext.project[i].parse.outcome = "raises"
                  => \E j \in 1..Len(ext.errors) :
                        ext.errors[j].file_path = ext.project[i].path

\* the outcomes the graph records for a file: its edges, its external modules,
\* its unresolved imports
RecordedOutcomes(g, file_path) ==
    Len(get_list(g.edges, file_path))
        + (IF file_path \in DOMAIN g.external_deps
           THEN Cardinality(g.external_deps[file_path]) ELSE 0)
        + Len(get_list(g.unresolved_imports, file_path))

\* C19: every import descriptor of a processed file ends in exactly one outcome
\* recorded in the graph, an edge, an external dependency or an unresolved
\* import; so a file whose descriptors name different modules has as many
\* recorded outcomes as descriptors.
C19_EveryImportRecorded ==
    ext.outcome # "none" =>
        \A i \in 1..Len(ext.project) :
            LET imports == ext.project[i].parse.imports
            IN  (/\ ext.project[i].parse.outcome = "imports"
                 /\ \A j, k \in 1..Len(imports) : j # k => imports[j] # imports[k])
                   => RecordedOutcomes(ext.graph, ext.project[i].path) = Len(imports)

----------------------------------------------------------------------------
(* build_graph_from_dependency_mapping (dependency_graph.py)                  *)
(* A dependency mapping is a dict in insertion order: a list of files, each   *)
(* with its "dependencies" dict, a list of <<import_name, resolved_path>>     *)
(* with different names.  A resolved path is <<>> for None and <<p>> for the  *)
(* string p, the empty string being <<>> as a path.                           *)

\* a file of the mapping holds at most this many dependencies
MaxMappingDeps == 2

\* the import names of a mapping: os, pkg.mod, .c and the empty name
MappingNames == {OS, PKG_MOD, DOT_C, <<>>}

\* the resolved paths of a mapping: None, the empty string, c.py
ResolvedPaths == {<<>>, <<<<>>>>, <<C_PY>>}

\* the "dependencies" dicts: their keys differ
DependencyDicts ==
    {d \in UNION {[1..n -> MappingNames \X ResolvedPaths] : n \in 0..MaxMappingDeps} :
        \A i, j \in 1..Len(d) : i # j => d[i][1] # d[j][1]}

\* the "dependencies" dicts of the second file of a mapping: fewer entries than
\* the bound
ShortDependencyDicts == {d \in DependencyDicts : Len(d) < MaxMappingDeps}

\* the mappings over a.py and b.py: no file, one file, or both in either
\* insertion order
NoFileMapping == <<>>

OneFileMapping(f, d) == <<[file_path |-> f, dependencies |-> d]>>

TwoFileMapping(f, d1, d2) ==
    <<[file_path |-> f[1], dependencies |-> d1], [file_path |-> f[2], dependencies |-> d2]>>

\* `if resolved_path:`: neither None nor the empty string
is_truthy(resolved_path) == resolved_path # <<>> /\ resolved_path[1] # <<>>

\* a classification that asks only for the absence of a dot
likely_external_without_dot(import_name) == \A i \in 1..Len(import_name) : import_name[i] # "."

\* `"." not in import_name or import_name.startswith(".")`
likely_external(import_name) ==
    \/ \A i \in 1..Len(import_name) : import_name[i] # "."
    \/ (Len(import_name) > 0 /\ import_name[1] = ".")

\* the first pass: a node for every file of the mapping
RECURSIVE add_mapping_nodes(_, _)
add_mapping_nodes(g, mapping) ==
    IF mapping = <<>>
    THEN g
    ELSE add_mapping_nodes(graph_add_node(g, Head(mapping).file_path, "node_data"),
                           Tail(mapping))

\* the body of the loop over the dependencies of a file
add_dependency(g, file_path, import_name, resolved_path) ==
    IF is_truthy(resolved_path)
    THEN graph_add_edge(g, file_path, resolved_path[1], "import_name")
    ELSE IF likely_external(import_name)
    THEN [g EXCEPT !.external_deps = add_external_dependency(@, file_path, import_name)]
    ELSE [g EXCEPT !.unresolved_imports = add_unresolved_import(@, file_path, import_name)]

RECURSIVE add_dependencies(_, _, _)
add_dependencies(g, file_path, dependencies) ==
    IF dependencies = <<>>
    THEN g
    ELSE add_dependencies(
             add_dependency(g, file_path, Head(dependencies)[1], Head(dependencies)[2]),
             file_path, Tail(dependencies))

\* the second pass: the dependencies of every file of the mapping
RECURSIVE add_mapping_edges(_, _)
add_mapping_edges(g, mapping) ==
    IF mapping = <<>>
    THEN g
    ELSE add_mapping_edges(
             add_dependencies(g, Head(mapping).file_path, Head(mapping).dependencies),
             Tail(mapping))

build_graph_from_dependency_mapping(dependency_mapping) ==
    add_mapping_edges(add_mapping_nodes(NewGraph, dependency_mapping), dependency_mapping)

\* the call on a mapping, with its result
BuildGraphFrom(mapping) ==
    gop' = [op |-> "build_graph_from_dependency_mapping", args |-> <<mapping>>,
            before |-> <<>>, result |-> build_graph_from_dependency_mapping(mapping)]

\* one call of build_graph_from_dependency_mapping
BuildGraph ==
    /\ gop.op = "none"
    /\ \/ BuildGraphFrom(NoFileMapping)
       \/ \E f \in {A_PY, B_PY}, d \in DependencyDicts : BuildGraphFrom(OneFileMapping(f, d))
       \/ \E f \in {<<A_PY, B_PY>>, <<B_PY, A_PY>>}, d1 \in DependencyDicts,
             d2 \in ShortDependencyDicts : BuildGraphFrom(TwoFileMapping(f, d1, d2))
    /\ UNCHANGED <<resVars, auxVars, graphVars, unresolved_imports, external_deps, ext, incVars>>

MappingNext ==
    \/ BuildGraph
    \/ GraphReturn

MappingSpec == Init /\ [][MappingNext]_vars

\* the external modules and the unresolved imports the graph holds for a file
ExternalOf(g, file_path) ==
    IF file_path \in DOMAIN g.external_deps THEN g.external_deps[file_path] ELSE {}

UnresolvedOf(g, file_path) == Range(get_list(g.unresolved_imports, file_path))

\* C20: in the graph built from a mapping, an import with no resolved path is
\* an external dependency of its file if its name has no dot or starts with a
\* dot, and an unresolved import of its file otherwise, never both; an import
\* with a resolved path is neither, and is an edge from its file to that path.
C20_Classification ==
    gop.op = "build_graph_from_dependency_mapping" =>
        \A i \in 1..Len(gop.args[1]) :
            LET file_path == gop.args[1][i].file_path
                dependencies == gop.args[1][i].dependencies
                g == gop.result
            IN  \A j \in 1..Len(dependencies) :
                    LET import_name == dependencies[j][1]
                        resolved_path == dependencies[j][2]
                        external == import_name \in ExternalOf(g, file_path)
                        unresolved == import_name \in UnresolvedOf(g, file_path)
                        no_dot == \A k \in 1..Len(import_name) : import_name[k] # "."
                        starts_with_dot == Len(import_name) > 0 /\ import_name[1] = "."
                    IN  IF resolved_path = <<>> \/ resolved_path = <<<<>>>>
                        THEN /\ external <=> (no_dot \/ starts_with_dot)
                             /\ unresolved <=> ~(no_dot \/ starts_with_dot)
                        ELSE /\ ~external
                             /\ ~unresolved
                             /\ resolved_path[1] \in Range(get_list(g.edges, file_path))

\* a.py imports os and pkg.mod, neither resolved; b.py imports .c, resolved to
\* c.py
C20_Witness ==
    /\ gop.op = "build_graph_from_dependency_mapping"
    /\ gop.args[1] =
          <<[file_path |-> A_PY, dependencies |-> <<<<OS, <<>>>>, <<PKG_MOD, <<>>>>>>],
            [file_path |-> B_PY, dependencies |-> <<<<DOT_C, <<C_PY>>>>>>]>>
    /\ gop.result.external_deps = (A_PY :> {OS})
    /\ gop.result.unresolved_imports = (A_PY :> <<PKG_MOD>>)
    /\ gop.result.edges = (B_PY :> <<C_PY>>)

----------------------------------------------------------------------------
(* ImportPathResolver (codex_arch/extractors/python/path_resolver.py)         *)
(* Paths are token sequences: "/R/pkg/m.py" is <<"R", "/", "pkg", "/", "m",   *)
(* ".", "py">>.  An optional value is <<>> for None and <<v>> for v.          *)

\* the resolver has been called with at most this many different arguments
MaxKeys == 2
\* the deepest relative import
MaxLevel == 1

\* the project root, and a directory of the interpreter's sys.path
ROOT == <<"R">>
SITE == <<"S">>

\* sys.path when the resolver is constructed: without the project root, or
\* with it behind or before the other directory
SysPathEnvs == {<<SITE>>, <<SITE, ROOT>>, <<ROOT, SITE>>}

\* the import names: m and the empty name of `from . import x`
MOD_M == <<"m">>
ResolverNames == {MOD_M, <<>>}

\* the source files: none, or pkg/a.py relative to the working directory
SRC_A == <<"pkg", "/", "a", ".", "py">>
SourceFiles == {<<>>, <<SRC_A>>}

Levels == 0..MaxLevel

\* what the operating system does during a call: nothing special, every stat
\* fails (permission denied), or the working directory is gone
IoConditions == {"ok", "stat_fails", "cwd_gone"}

\* os.path.join(a, b) for a relative b: a separator between them unless a ends
\* with one
join(a, b) == IF a # <<>> /\ a[Len(a)] = "/" THEN a \o b ELSE a \o <<"/">> \o b

\* the files that can be on disk
FileUniverse ==
    {join(ROOT, MOD_M) \o DotPy,
     join(SITE, MOD_M) \o DotPy,
     join(join(ROOT, MOD_M), <<"__init__">>) \o DotPy,
     join(join(ROOT, <<"pkg">>), MOD_M) \o DotPy,
     join(join(ROOT, <<"pkg">>), <<"__init__">>) \o DotPy}

\* os.path.dirname: the path before its last separator
dirname(p) ==
    LET seps == {i \in 1..Len(p) : p[i] = "/"}
    IN  IF seps = {} THEN <<>>
        ELSE SubSeq(p, 1, (CHOOSE i \in seps : \A j \in seps : j <= i) - 1)

\* dirname applied n times (the loop at lines 67-68)
RECURSIVE go_up(_, _)
go_up(p, n) == IF n <= 0 THEN p ELSE go_up(dirname(p), n - 1)

\* ImportPathResolver.__init__: the root goes to the front of the search roots
\* unless it is among them already
resolver_sys_path(root_dir, env) ==
    IF \E i \in 1..Len(env) : env[i] = root_dir THEN env ELSE <<root_dir>> \o env

\* str(level), str(source_file) and the cache key f"{import_name}:{source_file}:{level}"
LevelStr(level) == IF level = 0 THEN "0" ELSE IF level = 1 THEN "1" ELSE IF level = 2 THEN "2" ELSE "n"

cache_key_of(import_name, source_file, level) ==
    import_name \o <<":">> \o (IF source_file = <<>> THEN <<"None">> ELSE source_file[1])
        \o <<":", LevelStr(level)>>

\* the paths _find_module_path tries for a module path, in order
Candidates(module_path) ==
    <<module_path \o DotPy,
      join(module_path, <<"__init__">>) \o DotPy,
      module_path \o <<".", "pyd">>,
      module_path \o <<".", "so">>,
      module_path \o <<".", "pyc">>>>

\* ImportPathResolver._find_module_path on the files os.path.isfile sees: the
\* first candidate that is a file, and the candidates that were tried
_find_module_path(seen, module_path) ==
    LET c == Candidates(module_path)
        hits == {i \in 1..Len(c) : c[i] \in seen}
    IN  IF hits = {}
        THEN [result |-> <<>>, probes |-> c]
        ELSE LET h == CHOOSE i \in hits : \A j \in hits : i <= j
             IN  [result |-> <<c[h]>>, probes |-> SubSeq(c, 1, h)]

\* the loop over sys_path of an absolute import (lines 80-85)
RECURSIVE search_sys_path(_, _, _, _)
search_sys_path(seen, roots, import_name, probes) ==
    IF roots = <<>>
    THEN [result |-> <<>>, probes |-> probes]
    ELSE LET found == _find_module_path(seen, join(Head(roots), Replace(import_name, ".", "/")))
         IN  IF found.result # <<>>
             THEN [result |-> found.result, probes |-> probes \o found.probes]
             ELSE search_sys_path(seen, Tail(roots), import_name, probes \o found.probes)

\* ImportPathResolver.resolve_import: what the caller gets (raised, result), how
\* the call went, the paths it probed, and the cache after the call.
\* os.path.isfile answers False when stat fails; os.path.abspath of a relative
\* source file asks for the working directory, which raises when it is gone.
resolve_import(path_cache, roots, on_disk, io, import_name, source_file, level) ==
    LET cache_key == cache_key_of(import_name, source_file, level)
        seen == IF io = "stat_fails" THEN {} ELSE on_disk
        done(result, outcome, probes, io_error, new_cache) ==
            [raised |-> FALSE, result |-> result, outcome |-> outcome, probes |-> probes,
             io_error |-> io_error, cache |-> new_cache]
        cached(result) ==
            [k \in DOMAIN path_cache \cup {cache_key} |->
                IF k = cache_key THEN result ELSE path_cache[k]]
    IN  IF cache_key \in DOMAIN path_cache
        THEN done(path_cache[cache_key], "cached", <<>>, FALSE, path_cache)
        ELSE IF level > 0
        THEN IF source_file = <<>>
             THEN done(<<>>, "no_source_file", <<>>, FALSE, path_cache)
             ELSE IF io = "cwd_gone"
             THEN done(<<>>, "exception", <<>>, TRUE, path_cache)
             ELSE LET source_dir == go_up(dirname(join(ROOT, source_file[1])), level - 1)
                      module_path == IF import_name # <<>>
                                     THEN join(source_dir, Replace(import_name, ".", "/"))
                                     ELSE source_dir
                      found == _find_module_path(seen, module_path)
                  IN  done(found.result, "resolved", found.probes, io = "stat_fails",
                           cached(found.result))
        ELSE LET found == search_sys_path(seen, roots, import_name, <<>>)
             IN  done(found.result, "resolved", found.probes, io = "stat_fails",
                      cached(found.result))

\* a resolver for the project root, under each sys.path
ResolveInit ==
    /\ AnalyzerInit
    /\ GraphInit
    /\ \E env \in SysPathEnvs : sys_path = resolver_sys_path(ROOT, env)
    /\ _path_cache = <<>>
    /\ fs_files = {}
    /\ first_result = <<>>
    /\ rop = RopIdle
    /\ NoAux

\* one call of resolve_import
ResolveImport ==
    /\ rop.op = "none"
    /\ \E import_name \in ResolverNames, source_file \in SourceFiles, level \in Levels,
          io \in IoConditions :
          LET args == <<import_name, source_file, level>>
              r == resolve_import(_path_cache, sys_path, fs_files, io,
                                  import_name, source_file, level)
          IN  /\ args \in DOMAIN first_result \/ Cardinality(DOMAIN first_result) < MaxKeys
              /\ _path_cache' = r.cache
              /\ first_result' =
                    IF args \in DOMAIN first_result
                    THEN first_result
                    ELSE [a \in DOMAIN first_result \cup {args} |->
                             IF a = args THEN r.result ELSE first_result[a]]
              /\ rop' = [op |-> "resolve_import", args |-> args, io |-> io,
                         raised |-> r.raised, result |-> r.result, outcome |-> r.outcome,
                         probes |-> r.probes, io_error |-> r.io_error,
                         repeat |-> args \in DOMAIN first_result]
    /\ UNCHANGED <<sys_path, fs_files, auxVars, graphVars, extVars, incVars>>

\* the caller has the result
ResolveReturn ==
    /\ rop.op # "none"
    /\ rop' = RopIdle
    /\ UNCHANGED <<sys_path, _path_cache, fs_files, first_result, auxVars, graphVars, extVars, incVars>>

\* a file appears on disk or disappears from it, between two calls
FsChange ==
    /\ rop.op = "none"
    /\ \E f \in FileUniverse :
          fs_files' = IF f \in fs_files THEN fs_files \ {f} ELSE fs_files \cup {f}
    /\ UNCHANGED <<sys_path, _path_cache, first_result, rop, auxVars, graphVars, extVars, incVars>>

ResolveNext ==
    \/ ResolveImport
    \/ ResolveReturn
    \/ FsChange

ResolveSpec == ResolveInit /\ [][ResolveNext]_vars

\* C21: an absolute import of m returns R/m.py whenever R/m.py is a file that
\* the resolver can see and the key is new, whatever else is in the search roots.
C21_ProjectRootFirst ==
    (/\ rop.op = "resolve_import"
     /\ rop.args[1] = MOD_M
     /\ rop.args[3] = 0
     /\ rop.outcome = "resolved"
     /\ rop.io = "ok"
     /\ join(ROOT, MOD_M) \o DotPy \in fs_files)
        => rop.result = <<join(ROOT, MOD_M) \o DotPy>>

\* C22: a call of resolve_import returns what the first call with the same
\* arguments returned, and a repeated call probes no path.
C22_Memoized ==
    rop.op = "resolve_import" =>
        /\ rop.result = first_result[rop.args]
        /\ rop.repeat => rop.probes = <<>>

\* C23: a relative import without a source file does not end like a module
\* that was not found, which is None returned without an exception.
C23_RelativeNeedsSource ==
    (rop.op = "resolve_import" /\ rop.args[3] >= 1 /\ rop.args[2] = <<>>)
        => ~(rop.raised = FALSE /\ rop.result = <<>>)

\* C24: resolve_import raises a resolution error exactly when the operating
\* system failed during the call; a file that is missing raises nothing.
C24_OnlyIoErrorsSurface ==
    rop.op = "resolve_import" => (rop.raised <=> rop.io_error)

----------------------------------------------------------------------------
(* The metrics variant of the incremental analyzer (incremental.py)           *)
(* A metrics snapshot holds 'file_metrics', file -> record, and 'aggregated'. *)
(* A record is its 'loc' entry: <<n>>, or <<>> when the record has none.      *)

\* the largest 'loc' of a record
MaxLoc == 2

\* the files that have metrics
MetricFiles == {A_PY, B_PY, NOTES_TXT}

\* the per-file records
MetricRecords == {<<>>} \cup {<<n>> : n \in 1..MaxLoc}

\* the 'file_metrics' dicts over a set of files
FileMetricsOver(universe) == UNION {[K -> MetricRecords] : K \in SUBSET universe}

\* the changed files handed to the update
ChangedFileSets == {c \in SUBSET MetricFiles : Cardinality(c) <= MaxChanged}

\* MetricsCollector.collect_metrics_for_files(files): records for the files
\* among `files` that could be measured
PartialMetrics(changed_files) ==
    {[file_metrics |-> fm] : fm \in FileMetricsOver(changed_files)}

\* `m.get('loc', 0)`
loc_of(m) == IF m = <<>> THEN 0 ELSE m[1]

\* `sum(m.get('loc', 0) for m in file_metrics.values())`
RECURSIVE sum_loc(_)
sum_loc(file_metrics) ==
    IF DOMAIN file_metrics = {}
    THEN 0
    ELSE LET f == CHOOSE k \in DOMAIN file_metrics : TRUE
         IN  loc_of(file_metrics[f])
               + sum_loc([k \in DOMAIN file_metrics \ {f} |-> file_metrics[k]])

\* the quotient a / b of true division, as a fraction in lowest terms
RECURSIVE gcd(_, _)
gcd(a, b) == IF b = 0 THEN a ELSE gcd(b, a % b)

true_div(a, b) == <<a \div gcd(a, b), b \div gcd(a, b)>>

\* the number 0
Zero == <<0, 1>>

\* IncrementalAnalyzer._recalculate_aggregated_metrics
_recalculate_aggregated_metrics(metrics, commit) ==
    LET file_metrics == metrics.file_metrics
        total_loc == sum_loc(file_metrics)
        total_files == Cardinality(DOMAIN file_metrics)
    IN  [metrics EXCEPT !.aggregated =
            [total_files |-> total_files,
             total_loc |-> total_loc,
             avg_loc_per_file |-> IF total_files > 0
                                  THEN true_div(total_loc, total_files) ELSE Zero,
             last_updated |-> get_commit_info(commit)]]

\* metrics_collector.collect_metrics(repo_path): the records of the whole tree
\* with their aggregates, stamped with the commit measured
FullMetrics(universe, commit) ==
    {_recalculate_aggregated_metrics([file_metrics |-> fm, aggregated |-> <<>>], commit) :
        fm \in FileMetricsOver(universe)}

\* `json.loads(json.dumps(cached_metrics))`
json_clone_metrics(cached_metrics) ==
    [file_metrics |->
        [f \in DOMAIN cached_metrics.file_metrics |-> cached_metrics.file_metrics[f]],
     aggregated |-> cached_metrics.aggregated]

\* an update that keeps the record of a changed file the collection did not measure
_update_metrics_analysis_keeping_stale(cached_metrics, changed_files, partial_metrics, commit) ==
    LET updated_metrics == json_clone_metrics(cached_metrics)
        file_metrics == updated_metrics.file_metrics
        new == partial_metrics.file_metrics
        replaced == [f \in DOMAIN file_metrics \cup DOMAIN new |->
                        IF f \in DOMAIN new THEN new[f] ELSE file_metrics[f]]
    IN  _recalculate_aggregated_metrics(
            [updated_metrics EXCEPT !.file_metrics = replaced], commit)

\* IncrementalAnalyzer._update_metrics_analysis; `partial_metrics` is what
\* collect_metrics_for_files returns for the changed files
_update_metrics_analysis(cached_metrics, changed_files, partial_metrics, commit) ==
    LET updated_metrics == json_clone_metrics(cached_metrics)
        file_metrics == updated_metrics.file_metrics
        new == partial_metrics.file_metrics
        replaced == [f \in DOMAIN file_metrics \cup DOMAIN new |->
                        IF f \in DOMAIN new THEN new[f] ELSE file_metrics[f]]
        removed == {f \in changed_files : f \notin DOMAIN new}
        kept == [f \in DOMAIN replaced \ removed |-> replaced[f]]
    IN  _recalculate_aggregated_metrics(
            [updated_metrics EXCEPT !.file_metrics = kept], commit)

\* one call of _update_metrics_analysis on a snapshot of a full collection
UpdateMetricsAnalysis ==
    /\ Idle
    /\ \E fm \in FileMetricsOver(MetricFiles), stamp \in Revs, changed_files \in ChangedFileSets :
          LET cached_metrics ==
                  _recalculate_aggregated_metrics(
                      [file_metrics |-> fm, aggregated |-> <<>>], stamp)
          IN  \E partial_metrics \in PartialMetrics(changed_files) :
                 run' = [RunIdle EXCEPT
                            !.outcome = "returned", !.path = "direct",
                            !.changes = [NoChanges EXCEPT !.modified = changed_files],
                            !.cached = <<cached_metrics>>,
                            !.partial = partial_metrics, !.extracted = changed_files,
                            !.result = <<_update_metrics_analysis(
                                            cached_metrics, changed_files,
                                            partial_metrics, head)>>]
    /\ UNCHANGED <<resVars, auxVars, cache, head, sui, graphVars, extVars>>

MetricsMergeNext ==
    \/ UpdateMetricsAnalysis
    \/ Commit
    \/ Return

MetricsMergeSpec == Init /\ [][MetricsMergeNext]_vars

\* C25: after _update_metrics_analysis, a changed file with a record in the
\* partial collection has that record, a changed file without one has no
\* record, an unchanged file has the record it had or none as before, and the
\* aggregates are those of the records: their number, the sum of their loc, and
\* the sum divided by the number, or 0 when there is no record.
C25_MetricsMerge ==
    (run.outcome = "returned" /\ run.path = "direct") =>
        LET old == run.cached[1].file_metrics
            new == run.partial.file_metrics
            got == run.result[1].file_metrics
            aggregated == run.result[1].aggregated
        IN  /\ \A f \in run.extracted :
                  IF f \in DOMAIN new
                  THEN f \in DOMAIN got /\ got[f] = new[f]
                  ELSE f \notin DOMAIN got
            /\ \A f \in MetricFiles \ run.extracted :
                  IF f \in DOMAIN old
                  THEN f \in DOMAIN got /\ got[f] = old[f]
                  ELSE f \notin DOMAIN got
            /\ aggregated.total_files = Cardinality(DOMAIN got)
            /\ aggregated.total_loc = sum_loc(got)
            /\ aggregated.avg_loc_per_file =
                  IF Cardinality(DOMAIN got) = 0
                  THEN Zero
                  ELSE true_div(sum_loc(got), Cardinality(DOMAIN got))

\* a.py is replaced, b.py is removed, notes.txt stays
C25_Witness ==
    /\ run.outcome = "returned"
    /\ run.path = "direct"
    /\ run.extracted = {A_PY, B_PY}
    /\ run.cached[1].file_metrics = (A_PY :> <<1>>) @@ (B_PY :> <<2>>) @@ (NOTES_TXT :> <<1>>)
    /\ run.partial.file_metrics = (A_PY :> <<2>>)
    /\ run.result[1].file_metrics = (A_PY :> <<2>>) @@ (NOTES_TXT :> <<1>>)
    /\ run.result[1].aggregated.total_loc = 3
    /\ run.result[1].aggregated.avg_loc_per_file = <<3, 2>>

----------------------------------------------------------------------------
(* IncrementalAnalyzer.perform_incremental_metrics_analysis, over a cache     *)
(* that it fills under the keys of 'metrics_analysis'                         *)

\* the files of the tree whose metrics are cached
CachedMetricFiles == {A_PY, B_PY}

\* the change sets get_changes reports over those files
MetricChangeSets == {c \in ChangeSets : all_changed_files(c) \subseteq CachedMetricFiles}

\* `not cached_metrics or not all_changed_files`: _perform_full_metrics_analysis
PerformMetricsFull ==
    /\ Idle
    /\ \E from_commit \in {PrevRev(head)}, changes \in MetricChangeSets :
          LET commit_hash == head
              cached_metrics == get_cached_result_for_commit(cache, "metrics_analysis",
                                                             commit_hash)
          IN  /\ cached_metrics = <<>> \/ all_changed_files(changes) = {}
              /\ \E metrics \in FullMetrics(CachedMetricFiles, head) :
                    /\ cache' = set_cache_entry(cache,
                                    generate_cache_key("metrics_analysis", head), metrics)
                    /\ run' = [RunIdle EXCEPT !.outcome = "returned", !.path = "full",
                                              !.from_commit = from_commit, !.changes = changes,
                                              !.cached = cached_metrics,
                                              !.full_ran = TRUE, !.result = <<metrics>>,
                                              !.before = cache]
    /\ sui' = SuiIdle
    /\ UNCHANGED <<resVars, auxVars, head, graphVars, extVars>>

\* cached metrics for the latest commit and a change: update them and store the result
PerformMetricsUpdate ==
    /\ Idle
    /\ \E from_commit \in {PrevRev(head)}, changes \in MetricChangeSets :
          LET commit_hash == head
              cached_metrics == get_cached_result_for_commit(cache, "metrics_analysis",
                                                             commit_hash)
              changed_files == all_changed_files(changes)
          IN  /\ ~(cached_metrics = <<>> \/ changed_files = {})
              /\ \E partial_metrics \in PartialMetrics(changed_files) :
                    LET updated_metrics ==
                            _update_metrics_analysis(cached_metrics[1], changed_files,
                                                     partial_metrics, head)
                        cache_key == generate_cache_key("metrics_analysis", commit_hash)
                    IN  /\ cache' = set_cache_entry(cache, cache_key, updated_metrics)
                        /\ run' = [RunIdle EXCEPT !.outcome = "returned", !.path = "current",
                                                  !.from_commit = from_commit,
                                                  !.changes = changes,
                                                  !.cached = cached_metrics,
                                                  !.partial = partial_metrics,
                                                  !.extracted = changed_files,
                                                  !.result = <<updated_metrics>>,
                                                  !.before = cache]
    /\ sui' = SuiIdle
    /\ UNCHANGED <<resVars, auxVars, head, graphVars, extVars>>

MetricsNext ==
    \/ PerformMetricsFull
    \/ PerformMetricsUpdate
    \/ Commit
    \/ Return

MetricsSpec == Init /\ [][MetricsNext]_vars

\* C30: perform_incremental_metrics_analysis decides as the dependency variant
\* does: with metrics cached for the latest commit and no changed file, and
\* with none cached for the latest commit but some for from_commit, it runs no
\* full collection.
C30_SameDecisions ==
    run.outcome = "returned" =>
        LET current == get_cached_result_for_commit(run.before, "metrics_analysis", head)
            prior == get_cached_result_for_commit(run.before, "metrics_analysis",
                                                  run.from_commit)
        IN  /\ (current # <<>> /\ all_changed_files(run.changes) = {}) => ~run.full_ran
            /\ (current = <<>> /\ prior # <<>>) => ~run.full_ran

----------------------------------------------------------------------------
(* The incremental analyses on the heap: a snapshot is a dict object whose    *)
(* two values are dict objects of their own, and the cache store hands out    *)
(* and keeps references to the snapshot objects                               *)

\* no more objects than this are allocated
MaxObjects == 8

\* a snapshot built by an analysis run or by json.loads: three new dicts
new_snapshot(h, items_key, summary_key, items, summary) ==
    LET h1 == Append(h, items)
        h2 == Append(h1, summary)
        h3 == Append(h2, (items_key :> Len(h1)) @@ (summary_key :> Len(h2)))
    IN  [heap |-> h3, ref |-> Len(h3)]

\* a copy of the top dict alone: its values are the dicts of the original
shallow_copy_object(h, ref, items_key, summary_key) ==
    [heap |-> Append(h, h[ref]), ref |-> Len(h) + 1]

\* `json.loads(json.dumps(cached))`: the text is written from the contents
\* reached through the references, and read back into new dicts
json_clone_object(h, ref, items_key, summary_key) ==
    new_snapshot(h, items_key, summary_key, h[h[ref][items_key]], h[h[ref][summary_key]])

\* the contents of the dependency snapshot at an address
analysis_at(h, ref) ==
    [dependencies |-> h[h[ref]["dependencies"]], metrics |-> h[h[ref]["metrics"]]]

\* the contents of the metrics snapshot at an address
metrics_at(h, ref) ==
    [file_metrics |-> h[h[ref]["file_metrics"]], aggregated |-> h[h[ref]["aggregated"]]]

\* _update_dependency_analysis, with the objects its statements write:
\* `del updated_analysis['dependencies'][module_name]` and
\* `updated_analysis['dependencies'][module] = deps` write the dict that the
\* clone's 'dependencies' refers to; `analysis['metrics'] = metrics` binds a
\* new dict in the clone
heap_update_dependency_analysis(h, cached_analysis, changes, partial, commit) ==
    LET c == json_clone_object(h, cached_analysis, "dependencies", "metrics")
        updated_analysis == c.ref
        value == _update_dependency_analysis(analysis_at(c.heap, updated_analysis),
                                             changes, partial, commit)
        dependencies == c.heap[updated_analysis]["dependencies"]
        h1 == [c.heap EXCEPT ![dependencies] = value.dependencies]
        h2 == Append(h1, value.metrics)
    IN  [heap |-> [h2 EXCEPT ![updated_analysis] = [@ EXCEPT !["metrics"] = Len(h2)]],
         ref |-> updated_analysis]

\* _update_metrics_analysis, with the objects its statements write:
\* `file_metrics[file_path] = metrics` and `del file_metrics[file_path]` write
\* the dict that the clone's 'file_metrics' refers to;
\* `metrics['aggregated'] = aggregated` binds a new dict in the clone
heap_update_metrics_analysis(h, cached_metrics, changed_files, partial_metrics, commit) ==
    LET c == json_clone_object(h, cached_metrics, "file_metrics", "aggregated")
        updated_metrics == c.ref
        value == _update_metrics_analysis(metrics_at(c.heap, updated_metrics),
                                          changed_files, partial_metrics, commit)
        file_metrics == c.heap[updated_metrics]["file_metrics"]
        h1 == [c.heap EXCEPT ![file_metrics] = value.file_metrics]
        h2 == Append(h1, value.aggregated)
    IN  [heap |-> [h2 EXCEPT ![updated_metrics] = [@ EXCEPT !["aggregated"] = Len(h2)]],
         ref |-> updated_metrics]

HeapIdle == Idle /\ hop.op = "none"

\* perform_incremental_dependency_analysis
HeapDependencyAnalysis ==
    /\ HeapIdle
    /\ Len(heap) + 4 <= MaxObjects
    /\ \E from_commit \in {PrevRev(head)}, changes \in ChangeSets :
          LET commit_hash == head
              found == lookup_cached(entries, commit_hash, from_commit)
              files == combined_changes(changes)
              cache_key == generate_cache_key("deps_analysis", commit_hash)
          IN  IF found.path = "full"
              THEN \E full_analysis \in FullAnalyses(head) :
                      LET made == new_snapshot(heap, "dependencies", "metrics",
                                      full_analysis.dependencies, full_analysis.metrics)
                      IN  /\ heap' = made.heap
                          /\ entries' = set_cache_entry(entries, cache_key, made.ref)
                          /\ hop' = [HopIdle EXCEPT !.op = "deps", !.path = "full",
                                        !.result = made.ref, !.key = cache_key,
                                        !.heap_before = heap, !.entries_before = entries]
              ELSE \E partial \in (IF files # {} THEN PartialAnalyses(files) ELSE {<<>>}) :
                      LET made == heap_update_dependency_analysis(
                                      heap, found.cached[1], changes, partial, head)
                      IN  /\ heap' = made.heap
                          /\ entries' = set_cache_entry(entries, cache_key, made.ref)
                          /\ hop' = [HopIdle EXCEPT !.op = "deps", !.path = found.path,
                                        !.arg = found.cached[1],
                                        !.result = made.ref, !.key = cache_key,
                                        !.changed = analysis_at(made.heap, made.ref).dependencies
                                                      # analysis_at(heap, found.cached[1]).dependencies,
                                        !.heap_before = heap, !.entries_before = entries]
    /\ UNCHANGED <<resVars, xt, incVars, graphVars, extVars>>

\* perform_incremental_metrics_analysis
HeapMetricsAnalysis ==
    /\ HeapIdle
    /\ Len(heap) + 4 <= MaxObjects
    /\ \E changes \in MetricChangeSets :
          LET commit_hash == head
              cached_metrics == get_cached_result_for_commit(entries, "metrics_analysis",
                                                             commit_hash)
              changed_files == all_changed_files(changes)
              cache_key == generate_cache_key("metrics_analysis", commit_hash)
          IN  IF cached_metrics = <<>> \/ changed_files = {}
              THEN \E metrics \in FullMetrics(CachedMetricFiles, head) :
                      LET made == new_snapshot(heap, "file_metrics", "aggregated",
                                      metrics.file_metrics, metrics.aggregated)
                      IN  /\ heap' = made.heap
                          /\ entries' = set_cache_entry(entries, cache_key, made.ref)
                          /\ hop' = [HopIdle EXCEPT !.op = "metrics", !.path = "full",
                                        !.result = made.ref, !.key = cache_key,
                                        !.heap_before = heap, !.entries_before = entries]
              ELSE \E partial_metrics \in PartialMetrics(changed_files) :
                      LET made == heap_update_metrics_analysis(
                                      heap, cached_metrics[1], changed_files,
                                      partial_metrics, head)
                      IN  /\ heap' = made.heap
                          /\ entries' = set_cache_entry(entries, cache_key, made.ref)
                          /\ hop' = [HopIdle EXCEPT !.op = "metrics", !.path = "current",
                                        !.arg = cached_metrics[1],
                                        !.result = made.ref, !.key = cache_key,
                                        !.changed = metrics_at(made.heap, made.ref).file_metrics
                                                      # metrics_at(heap, cached_metrics[1]).file_metrics,
                                        !.heap_before = heap, !.entries_before = entries]
    /\ UNCHANGED <<resVars, xt, incVars, graphVars, extVars>>

\* the caller takes the snapshot returned
HeapReturn ==
    /\ hop.op # "none"
    /\ hop' = HopIdle
    /\ UNCHANGED <<resVars, heap, entries, xt, incVars, graphVars, extVars>>

HeapNext ==
    \/ HeapDependencyAnalysis
    \/ HeapMetricsAnalysis
    \/ Commit
    \/ HeapReturn

HeapSpec == Init /\ [][HeapNext]_vars

\* the contents reached from the snapshot object at an address
contents_at(h, ref) == [k \in DOMAIN h[ref] |-> h[h[ref][k]]]

\* C29: an incremental update leaves the snapshot object it was given as it
\* was, contents included, whether that object is the cache entry of the
\* current revision or the entry of the prior revision used as fallback; every
\* cache entry other than the one under the current revision's key still
\* refers to the same object with the same contents, and no other key appears.
C29_SnapshotUntouched ==
    (hop.op # "none" /\ hop.path # "full") =>
        /\ heap[hop.arg] = hop.heap_before[hop.arg]
        /\ contents_at(heap, hop.arg) = contents_at(hop.heap_before, hop.arg)
        /\ DOMAIN entries = DOMAIN hop.entries_before \cup {hop.key}
        /\ \A k \in DOMAIN hop.entries_before \ {hop.key} :
              /\ entries[k] = hop.entries_before[k]
              /\ contents_at(heap, entries[k])
                    = contents_at(hop.heap_before, hop.entries_before[k])

\* an update of the prior revision's entry that removed or replaced a module
C29_Witness ==
    /\ hop.op = "deps" /\ hop.path = "prior"
    /\ hop.changed
    /\ hop.arg = hop.entries_before[generate_cache_key("deps_analysis", PrevRev(head))]
    /\ entries[hop.key] = hop.result
    /\ hop.result # hop.arg

----------------------------------------------------------------------------
(* PythonDependencyExtractor.extract step by step: the loop over the files,   *)
(* and in process_file the parse, the check and the store of add_node, one    *)
(* import at a time, and the return                                           *)

\* a pool of two workers: a file is taken while another is being processed
may_take_next_file_pooled(at) == Cardinality(DOMAIN at) < 2

\* `for file_path in python_files: ... self.process_file(file_path)`: the call
\* returns before the loop takes the next file
may_take_next_file(at) == DOMAIN at = {}

\* `self.nodes[node_id] = data`
store_node(ns, node_id, data) ==
    IF node_id \in node_ids(ns)
    THEN [k \in 1..Len(ns) |-> IF ns[k][1] = node_id THEN <<node_id, data>> ELSE ns[k]]
    ELSE Append(ns, <<node_id, data>>)

\* the files whose process_file call is under way
InProgress == DOMAIN xt.at

\* the call of file f has ended
returned_from(at, f) == [k \in DOMAIN at \ {f} |-> at[k]]

\* extract is called on a new extractor
XtExtract ==
    /\ xt.pc = "idle"
    /\ \E project \in Projects :
          xt' = [XtIdle EXCEPT !.pc = "loop", !.project = project, !.i = 1,
                    !.st = [graph |-> NewGraph, errors |-> <<>>, processed |-> <<>>]]
    /\ UNCHANGED <<resVars, heap, entries, hop, incVars, graphVars, extVars>>

\* the loop takes the next file and process_file parses it (lines 168-170, 88-95)
XtProcessFile ==
    /\ xt.pc = "loop"
    /\ xt.i <= Len(xt.project)
    /\ may_take_next_file(xt.at)
    /\ LET file == xt.project[xt.i]
           called == [xt EXCEPT !.i = @ + 1, !.st.processed = Append(@, file.path)]
       IN  xt' = IF file.parse.outcome = "raises"
                 THEN [called EXCEPT
                          !.st.errors = add_error(@, file.path, "process_error")]
                 ELSE IF file.parse.outcome = "none"
                 THEN called
                 ELSE [called EXCEPT
                          !.at = @ @@ (file.path :>
                                    [pc |-> "add_node", imports |-> file.parse.imports])]
    /\ UNCHANGED <<resVars, heap, entries, hop, incVars, graphVars, extVars>>

\* add_node: `if node_id not in self.nodes`
XtAddNodeCheck ==
    /\ \E f \in InProgress :
          /\ xt.at[f].pc = "add_node"
          /\ xt' = [xt EXCEPT !.at[f].pc =
                       IF f \notin node_ids(xt.st.graph.nodes) THEN "store" ELSE "imports"]
    /\ UNCHANGED <<resVars, heap, entries, hop, incVars, graphVars, extVars>>

\* add_node: `self.nodes[node_id] = data`
XtAddNodeStore ==
    /\ \E f \in InProgress :
          /\ xt.at[f].pc = "store"
          /\ xt' = [xt EXCEPT !.at[f].pc = "imports",
                              !.st.graph.nodes = store_node(@, f, "node_data"),
                              !.log = Append(@, [file |-> f, op |-> "add_node"])]
    /\ UNCHANGED <<resVars, heap, entries, hop, incVars, graphVars, extVars>>

\* one turn of the loop over the imports of the file (lines 111-137)
XtImport ==
    /\ \E f \in InProgress :
          /\ xt.at[f].pc = "imports"
          /\ xt.at[f].imports # <<>>
          /\ LET st == process_import(xt.st, project_files(xt.project), f,
                                      Head(xt.at[f].imports))
             IN  xt' = [xt EXCEPT !.at[f].imports = Tail(@),
                                  !.st = st,
                                  !.log = IF st.graph # xt.st.graph
                                          THEN Append(@, [file |-> f, op |-> "add_edge"])
                                          ELSE @]
    /\ UNCHANGED <<resVars, heap, entries, hop, incVars, graphVars, extVars>>

\* process_file returns node_data (line 139)
XtFileDone ==
    /\ \E f \in InProgress :
          /\ xt.at[f].pc = "imports"
          /\ xt.at[f].imports = <<>>
          /\ xt' = [xt EXCEPT !.at = returned_from(@, f)]
    /\ UNCHANGED <<resVars, heap, entries, hop, incVars, graphVars, extVars>>

\* after the loop: the log line that calls edge_count(), then the return
XtLogLine ==
    /\ xt.pc = "loop"
    /\ xt.i > Len(xt.project)
    /\ InProgress = {}
    /\ xt' = [xt EXCEPT !.pc = "done",
                        !.outcome = IF "edge_count" \in DependencyGraphMethods
                                    THEN "returned" ELSE "raised"]
    /\ UNCHANGED <<resVars, heap, entries, hop, incVars, graphVars, extVars>>

\* the caller has the outcome
XtReturn ==
    /\ xt.pc = "done"
    /\ xt' = XtIdle
    /\ UNCHANGED <<resVars, heap, entries, hop, incVars, graphVars, extVars>>

StepNext ==
    \/ XtExtract
    \/ XtProcessFile
    \/ XtAddNodeCheck
    \/ XtAddNodeStore
    \/ XtImport
    \/ XtFileDone
    \/ XtLogLine
    \/ XtReturn

StepSpec == Init /\ [][StepNext]_vars

\* C26: during extract at most one file is being processed at any time, so the
\* writes to the graph made for one file are never separated by a write made
\* for another file, and between the check and the store of an insert for a
\* file no other file's processing is under way and the check still holds.
C26_SingleWriter ==
    /\ Cardinality(InProgress) <= 1
    /\ \A a, b, c \in 1..Len(xt.log) :
          (a < b /\ b < c /\ xt.log[a].file = xt.log[c].file)
              => xt.log[b].file = xt.log[a].file
    /\ \A f \in InProgress :
          xt.at[f].pc = "store" => f \notin node_ids(xt.st.graph.nodes)

\* a.py has its node, and b.py passed the check of add_node and has not stored yet
C26_Witness ==
    /\ xt.pc = "loop"
    /\ xt.log = <<[file |-> A_PY, op |-> "add_node"]>>
    /\ InProgress = {B_PY}
    /\ xt.at[B_PY].pc = "store"
    /\ node_ids(xt.st.graph.nodes) = {A_PY}

====
